---------------------------- MODULE Spec2Model ----------------------------
(***************************************************************************)
(* Locally consistent parsing (lcptools): the level-1 parsers, the DCT     *)
(* compression, the level-N parser, the parse container with its deepening *)
(* steps, the chunked driver, the reverse-complement parser and the binary *)
(* dump, modelled from src/lps.c and the packed 64-bit cores of            *)
(* src/lcptools_ho.h.                                                      *)
(*                                                                         *)
(* A 64-bit word (bit_rep) and a 32-bit word (label) are little-endian bit *)
(* sequences without high zero bits, so that every bit of the C value is   *)
(* kept; sizes and positions are integers.                                 *)
(***************************************************************************)
EXTENDS Integers, Sequences, FiniteSets, TLC

VARIABLES str, pc, lps, ret, op, old, tmp, file, drv, enc

vars == <<str, pc, lps, ret, op, old, tmp, file, drv, enc>>

-----------------------------------------------------------------------------
(* Bounds of the model.                                                    *)

\* longest input enumerated symbol by symbol
DenseLen == 4
\* longest window cut from the corpus sequences
MaxLen == 12
\* highest target level requested from lps_deepen and init_lps4
MaxLevel == 3
\* widest margin left around a core when a window is cut around it
MaxMargin == 3

-----------------------------------------------------------------------------
(* Words as bit sequences.                                                 *)

Min(a, b) == IF a < b THEN a ELSE b
Max(a, b) == IF a > b THEN a ELSE b
MaxOf(S) == CHOOSE m \in S : \A j \in S : j <= m

Pow2(n) == 2 ^ n

\* the value e, with v evaluated before it: TLC evaluates a definition when it
\* is first needed, on top of the evaluation that needs it, and evaluating the
\* intermediate results of a long computation in order keeps that stack short
After(v, e) == IF v = v THEN e ELSE e

\* a bit sequence without its high zero bits
Norm(b) == IF Len(b) = 0 THEN <<>>
           ELSE IF b[Len(b)] = 1 THEN b
           ELSE LET ones == {i \in 1..Len(b) : b[i] = 1}
                IN IF ones = {} THEN <<>> ELSE SubSeq(b, 1, MaxOf(ones))

\* the bits of a natural number below 2^30
NatBits(n) == Norm([i \in 1..30 |-> (n \div Pow2(i - 1)) % 2])

\* the number a bit sequence of at most 30 bits stands for
RECURSIVE BitsNat(_)
BitsNat(b) == IF Len(b) = 0 THEN 0
              ELSE IF Len(b) = 1 THEN b[1]
              ELSE LET h == Len(b) \div 2
                   IN BitsNat(SubSeq(b, 1, h)) + Pow2(h) * BitsNat(SubSeq(b, h + 1, Len(b)))

Zeros(k) == [i \in 1..k |-> 0]
Ones(k) == [i \in 1..k |-> 1]

\* bit i (0-based) of a word
Bit(b, i) == IF i + 1 <= Len(b) THEN b[i + 1] ELSE 0

\* the low w bits of a word, as a sequence of exactly w bits
Pad(b, w) == [i \in 1..w |-> Bit(b, i - 1)]

\* the value truncated to w bits
Trunc(b, w) == Norm(SubSeq(b, 1, Min(Len(b), w)))

BitOr(a, b) == Norm([i \in 1..Max(Len(a), Len(b)) |-> IF Bit(a, i - 1) = 1 \/ Bit(b, i - 1) = 1 THEN 1 ELSE 0])
BitXor(a, b) == Norm([i \in 1..Max(Len(a), Len(b)) |-> IF Bit(a, i - 1) # Bit(b, i - 1) THEN 1 ELSE 0])

\* x << k and x >> k on a word of w bits (k < w)
Shl(b, k, w) == Trunc(Zeros(k) \o b, w)
Shr(b, k) == IF k >= Len(b) THEN <<>> ELSE SubSeq(b, k + 1, Len(b))

\* unsigned comparison of two words: the highest differing bit decides
WordLt(a, b) ==
    IF Len(a) # Len(b) THEN Len(a) < Len(b)
    ELSE LET diff == {i \in 1..Len(a) : a[i] # b[i]}
         IN diff # {} /\ a[MaxOf(diff)] < b[MaxOf(diff)]

\* index of the lowest set bit of a non-zero word (__builtin_ctzll)
Ctz(b) == (CHOOSE i \in 1..Len(b) : b[i] = 1 /\ \A j \in 1..(i - 1) : b[j] = 0) - 1

\* the top bit of a 64-bit word, 0x8000000000000000
TopBit == Zeros(63) \o <<1>>
HasTop(b) == Len(b) = 64

-----------------------------------------------------------------------------
(* Alphabet tables (src/encoding.c).                                       *)

Sigma == {"A", "C", "G", "T", "N"}

\* the forward table after LCP_INIT2: every entry is first set to -1
alphabet == [c \in Sigma |-> CASE c = "A" -> 0 [] c = "C" -> 1 [] c = "G" -> 2
                                  [] c = "T" -> 3 [] OTHER -> -1]

\* the reverse-complement table after LCP_INIT2 in a fresh process: the loop
\* that clears the tables never writes rc_alphabet, so an entry that is not
\* assigned keeps the 0 of a zero-initialised global
rc_alphabet == [c \in Sigma |-> CASE c = "A" -> 3 [] c = "C" -> 2 [] c = "G" -> 1
                                     [] c = "T" -> 0 [] OTHER -> 0]

\* the symbols of the tables as a process holds them: the letters LCP_INIT2
\* assigns, and N for a byte that it does not assign
Bytes == Sigma \cup {"a", "c", "g", "t"}

\* the tables before any initialisation: globals start zeroed
ZeroTables == [alphabet |-> [b \in Bytes |-> 0], rc_alphabet |-> [b \in Bytes |-> 0]]

\* the code LCP_INIT2 assigns to a letter, -1 for a byte without one
DefaultCode(b) ==
    CASE b \in {"A", "a"} -> 0 [] b \in {"C", "c"} -> 1 [] b \in {"G", "g"} -> 2
      [] b \in {"T", "t"} -> 3 [] OTHER -> -1

\* LCP_INIT2 on the tables t: the loop sets every entry of alphabet to -1 and
\* writes no entry of rc_alphabet; then the letters are assigned in both
LCP_INIT2(t) ==
    [alphabet |-> [b \in Bytes |-> DefaultCode(b)],
     rc_alphabet |-> [b \in Bytes |-> IF DefaultCode(b) >= 0 THEN 3 - DefaultCode(b)
                                     ELSE t.rc_alphabet[b]]]

\* the fscanf loop of LCP_INIT_FILE from record i on: a record is a
\* character, its encoding and its reverse encoding
RECURSIVE read_encodings(_, _, _)
read_encodings(t, records, i) ==
    IF i > Len(records) THEN t
    ELSE read_encodings(
             [alphabet |-> [t.alphabet EXCEPT ![records[i][1]] = records[i][2]],
              rc_alphabet |-> [t.rc_alphabet EXCEPT ![records[i][1]] = records[i][3]]],
             records, i + 1)

\* mx after the loop, and the number of binary digits counted from it
encodings_max(records) ==
    MaxOf({-1} \cup {records[i][2] : i \in 1..Len(records)}
               \cup {records[i][3] : i \in 1..Len(records)})
bit_count(mx) == IF mx > 0 THEN Len(NatBits(mx)) ELSE 0

\* LCP_INIT_FILE on the tables t: -1 and untouched tables when the file
\* cannot be opened; otherwise alphabet is cleared, the records are read, and
\* the process exits unless the largest encoding has two binary digits
LCP_INIT_FILE(t, opened, records) ==
    IF ~opened THEN [tables |-> t, ret |-> -1, exits |-> FALSE]
    ELSE [tables |-> read_encodings([alphabet |-> [b \in Bytes |-> -1],
                                     rc_alphabet |-> t.rc_alphabet], records, 1),
          ret |-> 0,
          exits |-> bit_count(encodings_max(records)) # 2]

-----------------------------------------------------------------------------
(* Cores (src/lcptools_ho.h).                                              *)

\* (int)code << k, converted to the 32 bits of a label
CodeShl(code, k) == IF code < 0 THEN Zeros(k) \o Ones(32 - k)
                    ELSE Shl(NatBits(code), k, 32)

\* the symbol at 0-based position i of buffer s
At(s, i) == s[i + 1]

core_of(bit_size, bit_rep, label, start, end) ==
    [bit_size |-> bit_size, bit_rep |-> bit_rep, label |-> label,
     start |-> start, end |-> end]

\* init_core_sym as it would be if the span of a core ran one symbol further
init_core_sym_wide(tab, s, begin, distance, start_index, end_index) ==
    LET label == BitOr(BitOr(Shl(NatBits(distance - 2), 6, 32),
                             CodeShl(tab[At(s, begin)], 4)),
                       BitOr(CodeShl(tab[At(s, begin + distance - 2)], 2),
                             CodeShl(tab[At(s, begin + distance - 1)], 0)))
    IN core_of(2 * distance, BitOr(TopBit, label), label, start_index, end_index + 1)

\* init_core1 / init_core2: a core from the distance symbols at begin, with
\* table tab (alphabet for init_core1, rc_alphabet for init_core2)
init_core_sym(tab, s, begin, distance, start_index, end_index) ==
    LET label == BitOr(BitOr(Shl(NatBits(distance - 2), 6, 32),
                             CodeShl(tab[At(s, begin)], 4)),
                       BitOr(CodeShl(tab[At(s, begin + distance - 2)], 2),
                             CodeShl(tab[At(s, begin + distance - 1)], 0)))
    IN core_of(2 * distance, BitOr(TopBit, label), label, start_index, end_index)

init_core1(s, begin, distance, start_index, end_index) ==
    init_core_sym(alphabet, s, begin, distance, start_index, end_index)

\* a core built from given fields
init_core4(bit_size, bit_rep, label, start, end) ==
    core_of(bit_size, bit_rep, label, start, end)

\* the comparison operators of cores: unsigned comparisons of bit_rep
core_eq(lhs, rhs) == lhs.bit_rep = rhs.bit_rep
core_neq(lhs, rhs) == lhs.bit_rep # rhs.bit_rep
core_lt(lhs, rhs) == WordLt(lhs.bit_rep, rhs.bit_rep)
core_gt(lhs, rhs) == WordLt(rhs.bit_rep, lhs.bit_rep)
core_leq(lhs, rhs) == ~WordLt(rhs.bit_rep, lhs.bit_rep)
core_geq(lhs, rhs) == ~WordLt(lhs.bit_rep, rhs.bit_rep)

-----------------------------------------------------------------------------
(* MurmurHash3_32. A uint32_t of the hash is a pair of 16-bit halves, so   *)
(* that its arithmetic stays within the integers of TLC.                   *)

Half == Pow2(16)
W32(hi, lo) == [hi |-> hi, lo |-> lo]

\* a label as a pair of halves, and back
ToW32(b) == W32(BitsNat(Shr(Trunc(b, 32), 16)), BitsNat(Trunc(b, 16)))
FromW32(x) == Norm(Pad(NatBits(x.lo), 16) \o NatBits(x.hi))

\* the product of two 16-bit numbers as its high and low halves
Mul16(x, y) ==
    LET X == (x % 256) * y
        Y == (x \div 256) * y
    IN W32(((X \div 256) + Y) \div 256, (X + 256 * (Y % 256)) % Half)

\* a * c and a + c in uint32_t
Mul32(a, c) ==
    After(a, W32((Mul16(a.lo, c.lo).hi + Mul16(a.hi, c.lo).lo + Mul16(a.lo, c.hi).lo) % Half,
                 Mul16(a.lo, c.lo).lo))
Add32(a, c) ==
    After(a, W32((a.hi + c.hi + (a.lo + c.lo) \div Half) % Half, (a.lo + c.lo) % Half))

\* a ^ b on 16-bit numbers, bit by bit
XorBit(a, b, i) == (((a \div Pow2(i)) + (b \div Pow2(i))) % 2) * Pow2(i)
Xor16(a, b) ==
    XorBit(a, b, 0) + XorBit(a, b, 1) + XorBit(a, b, 2) + XorBit(a, b, 3)
    + XorBit(a, b, 4) + XorBit(a, b, 5) + XorBit(a, b, 6) + XorBit(a, b, 7)
    + XorBit(a, b, 8) + XorBit(a, b, 9) + XorBit(a, b, 10) + XorBit(a, b, 11)
    + XorBit(a, b, 12) + XorBit(a, b, 13) + XorBit(a, b, 14) + XorBit(a, b, 15)
Xor32(a, c) == After(a, After(c, W32(Xor16(a.hi, c.hi), Xor16(a.lo, c.lo))))

\* x >> r for 0 < r <= 16, and (x << 15) | (x >> (32 - 15))
Shr32(x, r) ==
    After(x, W32(x.hi \div Pow2(r), (x.lo \div Pow2(r)) + (x.hi % Pow2(r)) * Pow2(16 - r)))
Rotl15(x) ==
    After(x, W32((x.lo \div 2) + (x.hi % 2) * Pow2(15), (x.hi \div 2) + (x.lo % 2) * Pow2(15)))

\* 0xcc9e2d51 and 0x1b873593
Murmur_c1 == W32(52382, 11601)
Murmur_c2 == W32(7047, 13715)

\* the block k1 as it enters the hash: k1 *= c1; k1 = rotl(k1, 15); k1 *= c2
murmur_k1(k1) == Mul32(Rotl15(Mul32(k1, Murmur_c1)), Murmur_c2)

\* one round of the body loop on block k1; the constant added is 0xe6546b64
murmur_round(h1, k1) ==
    Add32(Mul32(Rotl15(Xor32(h1, murmur_k1(k1))), W32(0, 5)), W32(58964, 27492))

\* h ^= h >> r
XorShr(h, r) == After(h, Xor32(h, Shr32(h, r)))

\* fmix32, with the constants 0x85ebca6b and 0xc2b2ae35
fmix32(h) ==
    XorShr(Mul32(XorShr(Mul32(XorShr(h, 16), W32(34283, 51819)), 13),
                 W32(49842, 44597)), 16)

\* the body loop over the blocks data[i..]
RECURSIVE murmur_body(_, _, _)
murmur_body(h1, data, i) ==
    IF i > Len(data) THEN h1
    ELSE After(h1, murmur_body(murmur_round(h1, ToW32(data[i])), data, i + 1))

\* the hash of the words of data (len = 4 * Len(data): whole blocks, no tail)
MurmurHash3_32(data, seed) ==
    FromW32(fmix32(Xor32(murmur_body(W32(0, seed), data, 1), W32(0, 4 * Len(data)))))

-----------------------------------------------------------------------------
(* Cores of the upper levels.                                              *)

\* what x << index yields in init_core3 when index >= 64, which C leaves
\* undefined: "wrap" is the shift instruction of x86-64 and AArch64, which
\* uses the count modulo 64, "zero" is the mathematical shift
UBShift == {"wrap", "zero"}

Shl64(ub, b, index) ==
    IF index < 64 THEN Shl(b, index, 64)
    ELSE IF ub = "wrap" THEN Shl(b, index % 64, 64) ELSE <<>>

\* the first loop of init_core3: the sum of bit_size over buf[lo..hi] (0-based)
RECURSIVE sum_bit_size(_, _, _)
sum_bit_size(buf, lo, hi) ==
    IF lo > hi THEN 0
    ELSE IF lo = hi THEN buf[lo + 1].bit_size
    ELSE LET mid == (lo + hi) \div 2
         IN sum_bit_size(buf, lo, mid) + sum_bit_size(buf, mid + 1, hi)

\* the second loop of init_core3, from the last core down: core it is shifted
\* by index, the sum of the sizes of the cores it+1..last, and or-ed in
RECURSIVE concat_bit_rep(_, _, _, _, _)
concat_bit_rep(ub, buf, lo, hi, last) ==
    IF lo > hi THEN <<>>
    ELSE IF lo = hi THEN Shl64(ub, buf[lo + 1].bit_rep, sum_bit_size(buf, lo + 1, last))
    ELSE LET mid == (lo + hi) \div 2
         IN BitOr(concat_bit_rep(ub, buf, lo, mid, last),
                  concat_bit_rep(ub, buf, mid + 1, hi, last))

\* init_core3 as it would be if it took start from the last core of the run
\* and end from the first
init_core3_swapped(ub, buf, begin, distance) ==
    LET last == begin + distance - 1
        data == << buf[begin + 1].label, buf[last].label, buf[last + 1].label,
                   NatBits(distance - 2) >>
    IN core_of(Min(sum_bit_size(buf, begin, last), 63),
               Trunc(concat_bit_rep(ub, buf, begin, last, last), 63),
               MurmurHash3_32(data, 42),
               buf[last + 1].start, buf[begin + 1].end)

\* the core of the distance cores of buf at begin (0-based)
init_core3(ub, buf, begin, distance) ==
    LET last == begin + distance - 1
        data == << buf[begin + 1].label, buf[last].label, buf[last + 1].label,
                   NatBits(distance - 2) >>
    IN core_of(Min(sum_bit_size(buf, begin, last), 63),
               Trunc(concat_bit_rep(ub, buf, begin, last, last), 63),
               MurmurHash3_32(data, 42),
               buf[begin + 1].start, buf[last + 1].end)

\* the two bits of a word at shift, and the middle count of a level-1 core
Field2(b, shift) == BitsNat(Pad(Shr(b, shift), 2))
MiddleCount(b) == BitsNat(Shr(Trunc(b, 63), 6))

\* 64 - __builtin_clzll(x) of a non-zero x
BitLength(n) == Len(NatBits(n))

\* compress1 as it would be with the second-last symbols compared before
\* the last ones
compress1_swapped(left_core, right_core) ==
    LET l3 == Field2(left_core.bit_rep, 0)
        l2 == Field2(left_core.bit_rep, 2)
        lm == MiddleCount(left_core.bit_rep)
        l1 == Field2(left_core.bit_rep, 4)
        r3 == Field2(right_core.bit_rep, 0)
        r2 == Field2(right_core.bit_rep, 2)
        rm == MiddleCount(right_core.bit_rep)
        r1 == Field2(right_core.bit_rep, 4)
    IN  IF l2 # r2
        THEN IF l2 % 2 # r2 % 2 THEN 4 + (r2 % 2) ELSE 6 + ((r2 \div 2) % 2)
        ELSE IF l3 # r3
        THEN IF l3 % 2 # r3 % 2 THEN r3 % 2 ELSE 2 + ((r3 \div 2) % 2)
        ELSE IF lm # rm
        THEN IF lm < rm
             THEN IF l1 % 2 # r2 % 2 THEN 4 * (lm + 1) + (r2 % 2)
                  ELSE 2 * (2 * (lm + 1) + 1) + ((r2 \div 2) % 2)
             ELSE IF l2 % 2 # r1 % 2 THEN 4 * (rm + 1) + (r1 % 2)
                  ELSE 2 * (2 * (rm + 1) + 1) + ((r1 \div 2) % 2)
        ELSE IF l1 # r1
        THEN IF l1 % 2 # r1 % 2 THEN 4 * (lm + 1) + (r1 % 2)
             ELSE 2 * (2 * (lm + 1) + 1) + ((r1 \div 2) % 2)
        ELSE 2 * right_core.bit_size

\* core_compress of a pair of level-1 cores: the new bit_rep of the right core
compress1(left_core, right_core) ==
    LET l3 == Field2(left_core.bit_rep, 0)
        l2 == Field2(left_core.bit_rep, 2)
        lm == MiddleCount(left_core.bit_rep)
        l1 == Field2(left_core.bit_rep, 4)
        r3 == Field2(right_core.bit_rep, 0)
        r2 == Field2(right_core.bit_rep, 2)
        rm == MiddleCount(right_core.bit_rep)
        r1 == Field2(right_core.bit_rep, 4)
    IN  IF l3 # r3
        THEN IF l3 % 2 # r3 % 2 THEN r3 % 2 ELSE 2 + ((r3 \div 2) % 2)
        ELSE IF l2 # r2
        THEN IF l2 % 2 # r2 % 2 THEN 4 + (r2 % 2) ELSE 6 + ((r2 \div 2) % 2)
        ELSE IF lm # rm
        THEN IF lm < rm
             THEN IF l1 % 2 # r2 % 2 THEN 4 * (lm + 1) + (r2 % 2)
                  ELSE 2 * (2 * (lm + 1) + 1) + ((r2 \div 2) % 2)
             ELSE IF l2 % 2 # r1 % 2 THEN 4 * (rm + 1) + (r1 % 2)
                  ELSE 2 * (2 * (rm + 1) + 1) + ((r1 \div 2) % 2)
        ELSE IF l1 # r1
        THEN IF l1 % 2 # r1 % 2 THEN 4 * (lm + 1) + (r1 % 2)
             ELSE 2 * (2 * (lm + 1) + 1) + ((r1 \div 2) % 2)
        ELSE 2 * right_core.bit_size

\* compressN as it would be without the clamp to the smaller bit_size
compressN_unclamped(left_core, right_core) ==
    LET differing == IF left_core.bit_rep # right_core.bit_rep
                     THEN Ctz(BitXor(left_core.bit_rep, right_core.bit_rep))
                     ELSE right_core.bit_size
    IN 2 * differing + Bit(right_core.bit_rep, differing)

\* core_compress of a pair of cores of an upper level
compressN(left_core, right_core) ==
    LET differing == IF left_core.bit_rep # right_core.bit_rep
                     THEN Ctz(BitXor(left_core.bit_rep, right_core.bit_rep))
                     ELSE right_core.bit_size
        first_differing_index == Min(differing, Min(left_core.bit_size, right_core.bit_size))
    IN 2 * first_differing_index + Bit(right_core.bit_rep, first_differing_index)

\* the right core after core_compress(left_core, right_core)
core_compress(left_core, right_core) ==
    LET level1 == HasTop(left_core.bit_rep)
        rep == IF level1 THEN compress1(left_core, right_core)
               ELSE compressN(left_core, right_core)
        size == IF level1
                THEN IF Field2(left_core.bit_rep, 0) # Field2(right_core.bit_rep, 0)
                     THEN 2 ELSE BitLength(rep)
                ELSE Max(2, IF rep = 0 THEN 2 ELSE BitLength(rep))
    IN core_of(size, NatBits(rep), right_core.label, left_core.start, right_core.end)

-----------------------------------------------------------------------------
(* Level-1 parser (src/lps.c, parse1).                                     *)

\* the while loop that counts the middle symbols: the first temp >= from with
\* temp = end or code(temp-1) # code(temp)
run_end(tab, s, from) ==
    CHOOSE temp \in from..Len(s) :
        /\ temp = Len(s) \/ tab[At(s, temp - 1)] # tab[At(s, temp)]
        /\ \A u \in from..(temp - 1) : tab[At(s, u - 1)] = tab[At(s, u)]

\* the scanner's state between two iterations of the for loop: it2 is the end
\* of the last pattern core (the end of the buffer before the first one)
scan_state(it2, last_invalid, cores) ==
    [it2 |-> it2, last_invalid |-> last_invalid, cores |-> cores]

\* pattern1 as it would be if the loop body skipped position 0 before the
\* test for a local minimum and not after it
pattern1_skip_first(tab, s, it1) ==
    LET a(i) == tab[At(s, i)]
        temp == run_end(tab, s, it1 + 2)
    IN  IF a(it1) = -1 THEN [kind |-> "INVALID", end |-> it1]
        ELSE IF a(it1) = a(it1 + 1) THEN [kind |-> "NONE", end |-> it1]
        ELSE IF a(it1 + 1) = a(it1 + 2) /\ temp # Len(s)
        THEN [kind |-> "RINT", end |-> temp + 1]
        ELSE IF it1 = 0 THEN [kind |-> "NONE", end |-> it1]
        ELSE IF a(it1) > a(it1 + 1) /\ a(it1 + 1) < a(it1 + 2)
        THEN [kind |-> "LMIN", end |-> it1 + 3]
        ELSE IF /\ it1 + 3 < Len(s)
                /\ a(it1) < a(it1 + 1)
                /\ a(it1 + 1) > a(it1 + 2)
                /\ a(it1 - 1) <= a(it1)
                /\ a(it1 + 2) >= a(it1 + 3)
        THEN [kind |-> "LMAX", end |-> it1 + 3]
        ELSE [kind |-> "NONE", end |-> it1]

\* pattern1 as it would be if a run that reaches the end of the buffer closed
\* a core as well
pattern1_open_run(tab, s, it1) ==
    LET a(i) == tab[At(s, i)]
        temp == run_end(tab, s, it1 + 2)
    IN  IF a(it1) = -1 THEN [kind |-> "INVALID", end |-> it1]
        ELSE IF a(it1) = a(it1 + 1) THEN [kind |-> "NONE", end |-> it1]
        ELSE IF a(it1 + 1) = a(it1 + 2)
        THEN [kind |-> "RINT", end |-> Min(temp + 1, Len(s))]
        ELSE IF a(it1) > a(it1 + 1) /\ a(it1 + 1) < a(it1 + 2)
        THEN [kind |-> "LMIN", end |-> it1 + 3]
        ELSE IF it1 = 0 THEN [kind |-> "NONE", end |-> it1]
        ELSE IF /\ it1 + 3 < Len(s)
                /\ a(it1) < a(it1 + 1)
                /\ a(it1 + 1) > a(it1 + 2)
                /\ a(it1 - 1) <= a(it1)
                /\ a(it1 + 2) >= a(it1 + 3)
        THEN [kind |-> "LMAX", end |-> it1 + 3]
        ELSE [kind |-> "NONE", end |-> it1]

\* pattern1 as it would be with < for <= in the test of the symbol before a
\* local maximum
pattern1_strict(tab, s, it1) ==
    LET a(i) == tab[At(s, i)]
        temp == run_end(tab, s, it1 + 2)
    IN  IF a(it1) = -1 THEN [kind |-> "INVALID", end |-> it1]
        ELSE IF a(it1) = a(it1 + 1) THEN [kind |-> "NONE", end |-> it1]
        ELSE IF a(it1 + 1) = a(it1 + 2) /\ temp # Len(s)
        THEN [kind |-> "RINT", end |-> temp + 1]
        ELSE IF a(it1) > a(it1 + 1) /\ a(it1 + 1) < a(it1 + 2)
        THEN [kind |-> "LMIN", end |-> it1 + 3]
        ELSE IF it1 = 0 THEN [kind |-> "NONE", end |-> it1]
        ELSE IF /\ it1 + 3 < Len(s)
                /\ a(it1) < a(it1 + 1)
                /\ a(it1 + 1) > a(it1 + 2)
                /\ a(it1 - 1) < a(it1)
                /\ a(it1 + 2) >= a(it1 + 3)
        THEN [kind |-> "LMAX", end |-> it1 + 3]
        ELSE [kind |-> "NONE", end |-> it1]

\* pattern1 as it would be if a local maximum were a pattern whatever the
\* symbols before and after it are
pattern1_any_max(tab, s, it1) ==
    LET a(i) == tab[At(s, i)]
        temp == run_end(tab, s, it1 + 2)
    IN  IF a(it1) = -1 THEN [kind |-> "INVALID", end |-> it1]
        ELSE IF a(it1) = a(it1 + 1) THEN [kind |-> "NONE", end |-> it1]
        ELSE IF a(it1 + 1) = a(it1 + 2) /\ temp # Len(s)
        THEN [kind |-> "RINT", end |-> temp + 1]
        ELSE IF a(it1) > a(it1 + 1) /\ a(it1 + 1) < a(it1 + 2)
        THEN [kind |-> "LMIN", end |-> it1 + 3]
        ELSE IF a(it1) < a(it1 + 1) /\ a(it1 + 1) > a(it1 + 2)
        THEN [kind |-> "LMAX", end |-> it1 + 3]
        ELSE [kind |-> "NONE", end |-> it1]

\* the pattern the for loop of parse1 finds at position it1 (0-based) and the
\* end of its core: the tests of the loop body in the order of the code
pattern1(tab, s, it1) ==
    LET a(i) == tab[At(s, i)]
        temp == run_end(tab, s, it1 + 2)
        middle_count == temp - it1 - 1
    IN  IF a(it1) = -1 THEN [kind |-> "INVALID", end |-> it1]
        ELSE IF a(it1) = a(it1 + 1) THEN [kind |-> "NONE", end |-> it1]
        ELSE IF a(it1 + 1) = a(it1 + 2) /\ temp # Len(s)
        THEN [kind |-> "RINT", end |-> it1 + 2 + middle_count]
        ELSE IF a(it1) > a(it1 + 1) /\ a(it1 + 1) < a(it1 + 2)
        THEN [kind |-> "LMIN", end |-> it1 + 3]
        ELSE IF it1 = 0 THEN [kind |-> "NONE", end |-> it1]
        ELSE IF /\ it1 + 3 < Len(s)
                /\ a(it1) < a(it1 + 1)
                /\ a(it1 + 1) > a(it1 + 2)
                /\ a(it1 - 1) <= a(it1)
                /\ a(it1 + 2) >= a(it1 + 3)
        THEN [kind |-> "LMAX", end |-> it1 + 3]
        ELSE [kind |-> "NONE", end |-> it1]

\* step1 as it would be with <= for < in the test for a gap
step1_no_gap(tab, s, offset, st, it1) ==
    LET found == pattern1(tab, s, it1)
        sseq == st.it2 <= it1 /\ st.last_invalid < st.it2 - 1
        filled == IF sseq
                  THEN Append(st.cores,
                              init_core_sym(tab, s, st.it2 - 1, it1 - st.it2 + 2,
                                            st.it2 - 1 + offset, it1 + 1 + offset))
                  ELSE st.cores
    IN  IF found.kind = "INVALID" THEN scan_state(st.it2, it1, st.cores)
        ELSE IF found.kind = "NONE" THEN st
        ELSE scan_state(found.end, st.last_invalid,
                        Append(filled, init_core_sym(tab, s, it1, found.end - it1,
                                                     it1 + offset, found.end + offset)))

\* the body of the for loop of parse1 at position it1, with table tab: a
\* pattern core, behind the core that fills the gap since the last one (SSEQ)
step1(tab, s, offset, st, it1) ==
    LET found == pattern1(tab, s, it1)
        sseq == st.it2 < it1 /\ st.last_invalid < st.it2 - 1
        filled == IF sseq
                  THEN Append(st.cores,
                              init_core_sym(tab, s, st.it2 - 1, it1 - st.it2 + 2,
                                            st.it2 - 1 + offset, it1 + 1 + offset))
                  ELSE st.cores
    IN  IF found.kind = "INVALID" THEN scan_state(st.it2, it1, st.cores)
        ELSE IF found.kind = "NONE" THEN st
        ELSE scan_state(found.end, st.last_invalid,
                        Append(filled, init_core_sym(tab, s, it1, found.end - it1,
                                                     it1 + offset, found.end + offset)))

\* the iterations it1 = lo .. hi-1 of the for loop, in order: the first half
\* of the range, then the second half from the state the first one leaves
RECURSIVE scan1(_, _, _, _, _, _)
scan1(tab, s, offset, st, lo, hi) ==
    IF lo >= hi THEN st
    ELSE IF hi = lo + 1 THEN step1(tab, s, offset, st, lo)
    ELSE LET mid == (lo + hi) \div 2
             left == scan1(tab, s, offset, st, lo, mid)
         IN After(left, scan1(tab, s, offset, left, mid, hi))

\* the forward scan of a buffer with table tab: for (it1 = begin; it1+2 < end; it1++)
scan(tab, s, offset) ==
    scan1(tab, s, offset, scan_state(Len(s), -1, <<>>), 0, Len(s) - 2).cores

\* parse1 as it would be with the codes of the reverse complement
parse1_rc_codes(s, offset) == scan(rc_alphabet, s, offset)

parse1(s, offset) == scan(alphabet, s, offset)

new_lps(level, cores) == [level |-> level, size |-> Len(cores), cores |-> cores]

\* init_lps_offset as it would be if it dropped its offset
init_lps_no_offset(s, offset) == new_lps(1, parse1(s, 0))

init_lps_offset(s, offset) == new_lps(1, parse1(s, offset))

init_lps(s) == new_lps(1, parse1(s, 0))

-----------------------------------------------------------------------------
(* Level-N parser and deepening (src/lps.c, parse3 .. lps_deepen).         *)

DCT_ITERATION_COUNT == 1

\* the while loop of parse3 that counts the run of equal cores
run_end3(buf, from, end) ==
    CHOOSE temp \in from..end :
        /\ temp = end \/ ~core_eq(buf[temp], buf[temp + 1])
        /\ \A u \in from..(temp - 1) : core_eq(buf[u], buf[u + 1])

\* parse3 reads the cores buf[begin..end-1] and writes its result into the
\* same array from index 0 on: the state between two iterations of its loop
scan3_state(it2, core_index, buf) ==
    [it2 |-> it2, core_index |-> core_index, buf |-> buf]

\* the write of parse3 as it would be if it also overwrote the two slots
\* behind the one it fills
emit3_wide(ub, st, from, distance) ==
    [st EXCEPT !.buf = [i \in 1..Len(st.buf) |->
                           IF i \in (st.core_index + 1)..(st.core_index + 3)
                           THEN init_core3(ub, st.buf, from, distance) ELSE st.buf[i]],
               !.core_index = st.core_index + 1]

\* init_core3(&(cores[core_index]), from, distance); core_index++
emit3(ub, st, from, distance) ==
    [st EXCEPT !.buf[st.core_index + 1] = init_core3(ub, st.buf, from, distance),
               !.core_index = st.core_index + 1]

\* the end of the pattern the for loop of parse3 finds at it1 (0-based index
\* into the array), or -1: the tests of the loop body in the order of the code
pattern3(buf, begin, end, it1) ==
    LET c(i) == buf[i + 1]
    IN  IF core_eq(c(it1), c(it1 + 1)) THEN -1
        ELSE IF core_eq(c(it1 + 1), c(it1 + 2)) /\ run_end3(buf, it1 + 2, end) # end
        THEN run_end3(buf, it1 + 2, end) + 1
        ELSE IF core_gt(c(it1), c(it1 + 1)) /\ core_lt(c(it1 + 1), c(it1 + 2))
        THEN it1 + 3
        ELSE IF begin = it1 THEN -1
        ELSE IF /\ it1 + 3 < end
                /\ core_lt(c(it1), c(it1 + 1))
                /\ core_gt(c(it1 + 1), c(it1 + 2))
                /\ core_leq(c(it1 - 1), c(it1))
                /\ core_geq(c(it1 + 2), c(it1 + 3))
        THEN it1 + 3
        ELSE -1

\* the core that fills the gap between the last pattern core and it1
fill3(ub, st, it1) ==
    IF st.it2 < it1 THEN emit3(ub, st, st.it2 - 1, it1 - st.it2 + 2) ELSE st

\* the pattern core [it1, it2) behind the core that fills the gap
found3(ub, st, it1, it2) ==
    IF it2 < 0 THEN st
    ELSE [emit3(ub, fill3(ub, st, it1), it1, it2 - it1) EXCEPT !.it2 = it2]

\* the body of the for loop of parse3 at it1
step3(ub, begin, end, st, it1) ==
    found3(ub, st, it1, pattern3(st.buf, begin, end, it1))

\* the iterations it1 = lo .. hi-1 of the for loop of parse3, in order
RECURSIVE scan3(_, _, _, _, _, _)
scan3(ub, begin, end, st, lo, hi) ==
    IF lo >= hi THEN st
    ELSE IF hi = lo + 1 THEN step3(ub, begin, end, st, lo)
    ELSE LET mid == (lo + hi) \div 2
             left == scan3(ub, begin, end, st, lo, mid)
         IN After(left, scan3(ub, begin, end, left, mid, hi))

\* parse3(cores + begin, cores + end, cores) on the array buf: the array
\* afterwards and the number of cores written
parse3(ub, buf, begin, end) ==
    scan3(ub, begin, end, scan3_state(end, 0, buf), begin, end - 2)

\* the inner loop of lcp_dct as it would be from the first pair up: every
\* right core is compressed against a left core that is compressed already
RECURSIVE dct_pass_up(_, _, _)
dct_pass_up(cores, lo, hi) ==
    IF lo > hi THEN cores
    ELSE IF lo = hi
    THEN [cores EXCEPT ![lo + 1] = core_compress(cores[lo], cores[lo + 1])]
    ELSE LET mid == (lo + hi + 1) \div 2
             lower == dct_pass_up(cores, lo, mid - 1)
         IN After(lower, dct_pass_up(lower, mid, hi))

\* the inner loop of lcp_dct for the left cores hi, hi - 1, .. lo (1-based),
\* in this order: core_compress(it_left, it_right) writes the right core
RECURSIVE dct_pass(_, _, _)
dct_pass(cores, lo, hi) ==
    IF lo > hi THEN cores
    ELSE IF lo = hi
    THEN [cores EXCEPT ![lo + 1] = core_compress(cores[lo], cores[lo + 1])]
    ELSE LET mid == (lo + hi + 1) \div 2
             upper == dct_pass(cores, mid, hi)
         IN After(upper, dct_pass(upper, lo, mid - 1))

\* the outer loop of lcp_dct from dct_index on
RECURSIVE dct_iterations(_, _)
dct_iterations(cores, dct_index) ==
    IF dct_index >= DCT_ITERATION_COUNT THEN cores
    ELSE dct_iterations(dct_pass(cores, dct_index + 1, Len(cores) - 1), dct_index + 1)

\* the compression passes of lcp_dct on an array of at least two cores
dct_cores(cores) == dct_iterations(cores, 0)

\* lcp_dct: the return value and the array afterwards
lcp_dct(p) ==
    IF p.size < DCT_ITERATION_COUNT + 1 THEN [ret |-> -1, cores |-> p.cores]
    ELSE [ret |-> 0, cores |-> dct_cores(p.cores)]

\* the parse that the array and the count left by parse3 make
parsed_lps(level, parsed) ==
    [level |-> level, size |-> parsed.core_index,
     cores |-> SubSeq(parsed.buf, 1, parsed.core_index)]

\* lps_deepen1 as it would be if the branch for fewer than two cores left
\* the level as it is
lps_deepen1_stay(ub, p) ==
    IF lcp_dct(p).ret < 0
    THEN [lps |-> [level |-> p.level, size |-> 0, cores |-> <<>>], ret |-> 0]
    ELSE [lps |-> parsed_lps(p.level + 1,
                             parse3(ub, lcp_dct(p).cores, DCT_ITERATION_COUNT, p.size)),
          ret |-> 1]

\* lps_deepen1: the parse afterwards and the return value
lps_deepen1(ub, p) ==
    IF lcp_dct(p).ret < 0
    THEN [lps |-> [level |-> p.level + 1, size |-> 0, cores |-> <<>>], ret |-> 0]
    ELSE [lps |-> parsed_lps(p.level + 1,
                             parse3(ub, lcp_dct(p).cores, DCT_ITERATION_COUNT, p.size)),
          ret |-> 1]

\* the while loop of lps_deepen: deepen_loop tests the level, deepen_while
\* the result r of the call of lps_deepen1
RECURSIVE deepen_loop(_, _, _)
deepen_while(ub, r, lcp_level) ==
    After(r, IF r.ret # 0 THEN deepen_loop(ub, r.lps, lcp_level) ELSE r.lps)
deepen_loop(ub, p, lcp_level) ==
    IF p.level < lcp_level THEN deepen_while(ub, lps_deepen1(ub, p), lcp_level) ELSE p

\* lps_deepen as it would be with < for <= in its first test
lps_deepen_lt(ub, p, lcp_level) ==
    IF lcp_level < p.level THEN [lps |-> p, ret |-> 0]
    ELSE [lps |-> deepen_loop(ub, p, lcp_level), ret |-> 1]

\* lps_deepen: the parse afterwards and the return value
lps_deepen(ub, p, lcp_level) ==
    IF lcp_level <= p.level THEN [lps |-> p, ret |-> 0]
    ELSE [lps |-> deepen_loop(ub, p, lcp_level), ret |-> 1]

-----------------------------------------------------------------------------
(* Chunked driver (src/lps.c, init_lps4).                                  *)

\* what the driver reads as cores[i].start for an index i below 0, outside the
\* array it allocated: zeroed memory, or data larger than every position
OOBStart == {0, Pow2(30)}

\* the state of the driver between two chunks: lps_ptr->cores[0..core_index-1]
\* (size and core_index stay equal) and the position of the next chunk
drive_state(str_index, cores) == [str_index |-> str_index, cores |-> cores]

\* init_lps_offset on the chunk of str_len symbols at str_index, then lps_deepen
chunk_lps(ub, s, str_index, str_len, lcp_level) ==
    lps_deepen(ub, init_lps_offset(SubSeq(s, str_index + 1, str_index + str_len), str_index),
               lcp_level).lps

\* lps_ptr->cores[i].start as the driver reads it
start_at(g, cores, i) == IF i >= 0 THEN cores[i + 1].start ELSE g

\* next_start as it would be without the step over the chunk
next_start_stay(s, str_index, str_len) ==
    LET invalid == {i \in str_index..(str_index + str_len - 1) : alphabet[At(s, i)] = -1}
    IN  IF invalid = {} THEN str_index ELSE MaxOf(invalid) + 1

\* "find next start point": behind the last invalid symbol of the chunk, or
\* behind the chunk. At str_index = len the test reads the byte after the
\* input; whatever it is, the loop of the driver ends
next_start(s, str_index, str_len) ==
    LET invalid == {i \in str_index..(str_index + str_len - 1) : alphabet[At(s, i)] = -1}
        from == IF invalid = {} THEN str_index ELSE MaxOf(invalid) + 1
    IN  IF from < Len(s) /\ alphabet[At(s, from)] = -1 THEN from ELSE from + str_len

\* how many of the last two cores kept are the first cores of the chunk again
overlap_of(g, cores, first) ==
    IF start_at(g, cores, Len(cores) - 2) = first THEN 2
    ELSE IF start_at(g, cores, Len(cores) - 1) = first THEN 1
    ELSE 0

\* the next chunk starts at the core before the last one, when that is ahead
restart(g, s, str_index, str_len, merged) ==
    IF str_index < start_at(g, merged, Len(merged) - 2)
    THEN drive_state(start_at(g, merged, Len(merged) - 2), merged)
    ELSE drive_state(next_start(s, str_index, str_len), merged)

\* the body of the while loop once the chunk is parsed into temp_lps
merge_chunk(g, s, st, str_len, temp_lps) ==
    IF 1 < temp_lps.size
    THEN restart(g, s, st.str_index, str_len,
                 st.cores \o SubSeq(temp_lps.cores,
                                    overlap_of(g, st.cores, temp_lps.cores[1].start) + 1,
                                    temp_lps.size))
    ELSE drive_state(next_start(s, st.str_index, str_len), st.cores)

\* one iteration of the while loop of the driver (none once str_index >= len)
drive_step(ub, g, s, lcp_level, chunk_size, st) ==
    IF st.str_index >= Len(s) THEN st
    ELSE merge_chunk(g, s, st, Min(chunk_size, Len(s) - st.str_index),
                     chunk_lps(ub, s, st.str_index,
                               Min(chunk_size, Len(s) - st.str_index), lcp_level))

\* n iterations of the while loop, in order
RECURSIVE drive(_, _, _, _, _, _, _)
drive(ub, g, s, lcp_level, chunk_size, st, n) ==
    IF n = 0 \/ st.str_index >= Len(s) THEN st
    ELSE IF n = 1 THEN drive_step(ub, g, s, lcp_level, chunk_size, st)
    ELSE LET left == drive(ub, g, s, lcp_level, chunk_size, st, n \div 2)
         IN After(left, drive(ub, g, s, lcp_level, chunk_size, left, n - n \div 2))

\* the state the first chunk, parsed into temp_lps, leaves
first_state(temp_lps) ==
    IF temp_lps.size = 0 THEN drive_state(0, <<>>)
    ELSE IF temp_lps.size > 1
    THEN drive_state(temp_lps.cores[temp_lps.size - 1].start, temp_lps.cores)
    ELSE drive_state(temp_lps.cores[temp_lps.size].start, temp_lps.cores)

\* the block before the loop: the first chunk
drive_first(ub, s, lcp_level, chunk_size) ==
    first_state(chunk_lps(ub, s, 0, Min(chunk_size, Len(s)), lcp_level))

\* init_lps4 for lcp_level >= 1 and chunk_size >= 1. Every iteration of the
\* loop moves str_index forward, so there are at most len of them
init_lps4(ub, g, s, lcp_level, chunk_size) ==
    new_lps(1, drive(ub, g, s, lcp_level, chunk_size,
                     drive_first(ub, s, lcp_level, chunk_size), Len(s)).cores)

\* the end of a call of init_lps4 whose loop has reached state st after len
\* iterations: it returns once str_index >= len; a state short of that which
\* an iteration leaves as it is means that the loop never ends
init_lps4_end(ub, g, s, lcp_level, chunk_size, st) ==
    [lps |-> new_lps(1, st.cores),
     returns |-> \/ st.str_index >= Len(s)
                 \/ drive_step(ub, g, s, lcp_level, chunk_size, st) # st]

\* init_lps4 for every lcp_level and every chunk_size >= 0 on the object
\* before: with lcp_level < 1 it returns at once and leaves the object as it
\* was; it has no return value
init_lps4_call(ub, g, s, lcp_level, chunk_size, before) ==
    IF lcp_level < 1 THEN [lps |-> before, returns |-> TRUE]
    ELSE init_lps4_end(ub, g, s, lcp_level, chunk_size,
                       drive(ub, g, s, lcp_level, chunk_size,
                             drive_first(ub, s, lcp_level, chunk_size), Len(s)))

-----------------------------------------------------------------------------
(* Reverse-complement parser (src/lps.c, parse2 and init_lps2; the         *)
(* reversing variant of src/lcptools_ho.h).                                *)

\* the codes rc_alphabet can hold: what a read outside the buffer may yield
RCCodes == {0, 1, 2, 3}

\* rc_alphabet[*(begin + i)], where a position outside the buffer yields oob
rc_at(oob, s, i) == IF 0 <= i /\ i < Len(s) THEN rc_alphabet[At(s, i)] ELSE oob

\* init_core2 as parse2 calls it: it reads the symbols at begin, begin +
\* distance - 2 and begin + distance - 1, forward from begin
init_core2(oob, s, begin, distance, start_index, end_index) ==
    LET label == BitOr(BitOr(Shl(NatBits(distance - 2), 6, 32),
                             CodeShl(rc_at(oob, s, begin), 4)),
                       BitOr(CodeShl(rc_at(oob, s, begin + distance - 2), 2),
                             CodeShl(rc_at(oob, s, begin + distance - 1), 0)))
    IN core_of(2 * distance, BitOr(TopBit, label), label, start_index, end_index)

\* the while loop of parse2 that counts the middle symbols, downwards: the
\* first temp <= from with temp < begin or code(temp+1) # code(temp)
run_begin(oob, s, from) ==
    CHOOSE temp \in (-1)..from :
        /\ temp = -1 \/ rc_at(oob, s, temp + 1) # rc_at(oob, s, temp)
        /\ \A u \in (temp + 1)..from : rc_at(oob, s, u + 1) = rc_at(oob, s, u)

\* the state of parse2 between two iterations: it2 (begin - 1 at first)
scan2_state(it2, cores) == [it2 |-> it2, cores |-> cores]

\* the body of the for loop of parse2 at it1 (0-based), end = Len(s)
step2(oob, s, offset, st, it1) ==
    LET a(i) == rc_at(oob, s, i)
        end == Len(s)
        temp == run_begin(oob, s, it1 - 2)
        middle_count == it1 - 1 - temp
        filled == IF it1 < st.it2
                  THEN Append(st.cores,
                              init_core2(oob, s, st.it2 + 1, st.it2 - it1 + 2,
                                         end - st.it2 - 1 + offset, end - it1 - 1 + offset))
                  ELSE st.cores
        pattern(it2, distance) ==
            scan2_state(it2, Append(filled, init_core2(oob, s, it1, distance,
                                                       end - it1 - 1 + offset,
                                                       end - it2 - 1 + offset)))
    IN  IF a(it1) = a(it1 - 1) THEN st
        ELSE IF a(it1 - 1) = a(it1 - 2) /\ 0 <= temp
        THEN pattern(it1 - 2 - middle_count, 2 + middle_count)
        ELSE IF a(it1) > a(it1 - 1) /\ a(it1 - 1) < a(it1 - 2) THEN pattern(it1 - 3, 3)
        ELSE IF it1 = 0 THEN st
        ELSE IF /\ 0 <= it1 - 3
                /\ a(it1) < a(it1 - 1)
                /\ a(it1 - 1) > a(it1 - 2)
                /\ a(it1 + 1) <= a(it1)
                /\ a(it1 - 2) >= a(it1 - 3)
        THEN pattern(it1 - 3, 3)
        ELSE st

\* the iterations it1 = hi, hi - 1, .., lo of the for loop of parse2, in order
RECURSIVE scan2(_, _, _, _, _, _)
scan2(oob, s, offset, st, lo, hi) ==
    IF lo > hi THEN st
    ELSE IF lo = hi THEN step2(oob, s, offset, st, hi)
    ELSE LET mid == (lo + hi) \div 2
             upper == scan2(oob, s, offset, st, mid + 1, hi)
         IN After(upper, scan2(oob, s, offset, upper, lo, mid))

\* parse2: for (it1 = end - 1; begin <= it1 - 2; it1--)
parse2(oob, s, offset) ==
    scan2(oob, s, offset, scan2_state(-1, <<>>), 2, Len(s) - 1).cores

\* init_lps2 of src/lps.c: parse2 on the input as it is
init_lps2(oob, s) == new_lps(1, parse2(oob, s, 0))

\* reverse
Reverse(s) == [i \in 1..Len(s) |-> s[Len(s) + 1 - i]]

\* init_lps2 of src/lcptools_ho.h: the input is reversed, and its parse2 is
\* the forward scan of parse1 with rc_alphabet and init_core2
init_lps2_ho(s) == new_lps(1, scan(rc_alphabet, Reverse(s), 0))

-----------------------------------------------------------------------------
(* Binary dump (src/lps.c, write_lps and init_lps3). A file is a sequence  *)
(* of bytes; the machine is little-endian and struct core takes 40 bytes.  *)

\* what the four padding bytes behind bit_size and behind label may hold: the
\* cores live in memory from malloc and only their fields are ever assigned
PadBytes == {0, 255}

\* the n bytes of a word, low byte first, and the word of a run of bytes
ToBytes(b, n) == [k \in 1..n |-> BitsNat(SubSeq(Pad(b, 8 * n), 8 * k - 7, 8 * k))]
RECURSIVE ByteBits(_)
ByteBits(bytes) ==
    IF Len(bytes) = 0 THEN <<>>
    ELSE IF Len(bytes) = 1 THEN Pad(NatBits(bytes[1]), 8)
    ELSE LET h == Len(bytes) \div 2
         IN ByteBits(SubSeq(bytes, 1, h)) \o ByteBits(SubSeq(bytes, h + 1, Len(bytes)))
FromBytes(bytes) == Norm(ByteBits(bytes))

\* the bytes of one struct core
core_bytes(c, pad) ==
    ToBytes(NatBits(c.bit_size), 4) \o <<pad, pad, pad, pad>>
    \o ToBytes(c.bit_rep, 8)
    \o ToBytes(c.label, 4) \o <<pad, pad, pad, pad>>
    \o ToBytes(NatBits(c.start), 8) \o ToBytes(NatBits(c.end), 8)

\* sizeof(struct core)
CoreSize == 40

\* the bytes of cores[lo..hi]
RECURSIVE cores_bytes(_, _, _, _)
cores_bytes(cores, pad, lo, hi) ==
    IF lo > hi THEN <<>>
    ELSE IF lo = hi THEN core_bytes(cores[lo], pad)
    ELSE LET mid == (lo + hi) \div 2
         IN cores_bytes(cores, pad, lo, mid) \o cores_bytes(cores, pad, mid + 1, hi)

\* write_lps: level, size, and the array of cores when size # 0
write_lps(p, pad) ==
    ToBytes(NatBits(p.level), 4) \o ToBytes(NatBits(p.size), 4)
    \o cores_bytes(p.cores, pad, 1, p.size)

\* read_core as it would be if the reader took struct core for packed
read_core_packed(bytes, i) ==
    LET field(off, n) == FromBytes(SubSeq(bytes, 8 + 32 * i + off + 1, 8 + 32 * i + off + n))
    IN core_of(BitsNat(field(0, 4)), field(4, 8), field(12, 4),
               BitsNat(field(16, 8)), BitsNat(field(24, 8)))

\* the core read from the 40 bytes at index i (from 0) of the array in file
read_core(bytes, i) ==
    LET field(off, n) == FromBytes(SubSeq(bytes, 8 + CoreSize * i + off + 1,
                                          8 + CoreSize * i + off + n))
    IN core_of(BitsNat(field(0, 4)), field(8, 8), field(16, 4),
               BitsNat(field(24, 8)), BitsNat(field(32, 8)))

\* init_lps3 on a file that holds a whole dump
init_lps3(bytes) ==
    LET level == BitsNat(FromBytes(SubSeq(bytes, 1, 4)))
        size == BitsNat(FromBytes(SubSeq(bytes, 5, 8)))
    IN [level |-> level, size |-> size,
        cores |-> SubSeq([i \in 1..size |-> read_core(bytes, i - 1)], 1, size)]

-----------------------------------------------------------------------------
(* Inputs.                                                                 *)

\* the sequence of the repository's tests
TestString == <<
    "G", "G", "G", "A", "C", "C", "T", "G", "G", "T", "G", "A", "C", "C",
    "C", "C", "A", "G", "C", "C", "C", "A", "C", "G", "A", "C", "A", "G",
    "C", "C", "A", "A", "G", "C", "G", "C", "C", "A", "G", "C", "T", "G",
    "A", "G", "C", "T", "C", "A", "G", "G", "T", "G", "T", "G", "A", "G",
    "G", "A", "G", "A", "T", "C", "A", "C", "A", "G", "T", "C", "C", "T" >>

\* a sequence with symbols outside the alphabet
NString == <<
    "N", "T", "T", "G", "N", "A", "N", "A", "A", "G", "T", "T", "N", "T",
    "N", "G", "A", "A", "T", "N", "A", "N", "C", "N", "G", "A", "A", "C",
    "T", "A", "A", "G", "T", "G", "A", "C", "T", "T", "C", "C", "N" >>

\* every string of at most n symbols
RECURSIVE Strings(_)
Strings(n) == IF n = 0 THEN {<<>>}
              ELSE LET shorter == Strings(n - 1)
                   IN shorter \cup {Append(t, c) : t \in {u \in shorter : Len(u) = n - 1}, c \in Sigma}

\* the windows of n symbols of the two sequences
Windows(n) ==
    UNION {{SubSeq(c, i, i + n - 1) : i \in 1..(Len(c) - n + 1)} : c \in {TestString, NString}}

Inputs == Strings(DenseLen) \cup Windows(MaxLen) \cup {TestString}

-----------------------------------------------------------------------------
(* The parse object lps, a second parse object tmp, and the calls on them. *)

\* a parse object before its constructor has run
NoLps == [level |-> 0, size |-> 0, cores |-> <<>>]

Init ==
    /\ str \in Inputs
    /\ pc = "new"
    /\ lps = NoLps
    /\ ret = -1
    /\ op = <<"none", 0>>
    /\ old = NoLps
    /\ tmp = NoLps
    /\ file = <<>>
    /\ drv = [level |-> 0, chunk |-> 0, index |-> 0, begin |-> 0, end |-> 0]
    /\ enc = LCP_INIT2(ZeroTables)

\* init_lps(&lps, str, len)
InitLps ==
    /\ lps = NoLps
    /\ pc' = "parsed"
    /\ lps' = init_lps(str)
    /\ old' = lps
    /\ op' = <<"init_lps", 0>>
    /\ UNCHANGED <<str, ret, tmp, file, drv, enc>>

\* ret = lps_deepen1(&lps)
Deepen1(ub) ==
    /\ pc = "parsed"
    /\ lps.level <= MaxLevel
    /\ \E r \in {lps_deepen1(ub, lps)} : lps' = r.lps /\ ret' = r.ret
    /\ old' = lps
    /\ op' = <<"lps_deepen1", 0>>
    /\ UNCHANGED <<str, pc, tmp, file, drv, enc>>

\* ret = lps_deepen(&lps, lcp_level)
Deepen(ub, lcp_level) ==
    /\ pc = "parsed"
    /\ lps.level <= MaxLevel
    /\ \E r \in {lps_deepen(ub, lps, lcp_level)} : lps' = r.lps /\ ret' = r.ret
    /\ old' = lps
    /\ op' = <<"lps_deepen", lcp_level>>
    /\ UNCHANGED <<str, pc, tmp, file, drv, enc>>

Next ==
    \/ InitLps
    \/ \E ub \in UBShift : Deepen1(ub)
    \/ \E ub \in UBShift, lcp_level \in 0..(MaxLevel + 1) : Deepen(ub, lcp_level)

Spec == Init /\ [][Next]_vars

-----------------------------------------------------------------------------
(* Dumping a parse and reading it back.                                    *)

\* write_lps(&lps, out)
WriteLps(pad) ==
    /\ pc = "parsed"
    /\ pc' = "written"
    /\ file' = write_lps(lps, pad)
    /\ op' = <<"write_lps", 0>>
    /\ UNCHANGED <<str, lps, ret, old, tmp, drv, enc>>

\* init_lps3(&tmp, in) on the file written
InitLps3 ==
    /\ pc = "written"
    /\ pc' = "read"
    /\ tmp' = init_lps3(file)
    /\ op' = <<"init_lps3", 0>>
    /\ UNCHANGED <<str, lps, ret, old, file, drv, enc>>

NextFile ==
    \/ InitLps
    \/ \E ub \in UBShift : Deepen1(ub)
    \/ \E pad \in PadBytes : WriteLps(pad)
    \/ InitLps3

SpecFile == Init /\ [][NextFile]_vars

-----------------------------------------------------------------------------
(* Parsing a window of the input around a core of the parse.               *)

\* the margins left and right of the span of the core: a window that keeps
\* some context, the span itself, and the span less its first or last symbol
Margins == ((2..MaxMargin) \X (2..MaxMargin)) \cup {<<0, 0>>, <<-1, 0>>, <<0, -1>>}

\* init_lps_offset(&tmp, str + begin, end - begin, begin) for the window
\* [begin, end) around the core lps.cores[index]
InitWindow(index, begin, end) ==
    /\ pc = "parsed"
    /\ pc' = "window"
    /\ 0 <= begin /\ begin <= end /\ end <= Len(str)
    /\ tmp' = init_lps_offset(SubSeq(str, begin + 1, end), begin)
    /\ drv' = [drv EXCEPT !.index = index, !.begin = begin, !.end = end]
    /\ op' = <<"init_lps_offset", begin>>
    /\ UNCHANGED <<str, lps, ret, old, file, enc>>

\* ret = lps_deepen(&tmp, lps.level)
DeepenWindow(ub) ==
    /\ pc = "window"
    /\ pc' = "compared"
    /\ \E r \in {lps_deepen(ub, tmp, lps.level)} : tmp' = r.lps /\ ret' = r.ret
    /\ op' = <<"lps_deepen", lps.level>>
    /\ UNCHANGED <<str, lps, old, file, drv, enc>>

NextWin ==
    \/ InitLps
    \/ \E ub \in UBShift : lps.level < MaxLevel /\ Deepen1(ub)
    \/ \E index \in 1..lps.size, m \in Margins :
           InitWindow(index, lps.cores[index].start - m[1], lps.cores[index].end + m[2])
    \/ \E ub \in UBShift : DeepenWindow(ub)

SpecWin == Init /\ [][NextWin]_vars

-----------------------------------------------------------------------------
(* The chunked driver next to the single pass.                             *)

\* init_lps4(&tmp, str, len, lcp_level, chunk_size)
InitLps4(ub, g, lcp_level, chunk_size) ==
    /\ pc = "new"
    /\ \E r \in {init_lps4_call(ub, g, str, lcp_level, chunk_size, tmp)} :
           /\ tmp' = r.lps
           /\ pc' = IF r.returns THEN "chunked" ELSE "looping"
    /\ drv' = [drv EXCEPT !.level = lcp_level, !.chunk = chunk_size]
    /\ op' = <<"init_lps4", lcp_level>>
    /\ UNCHANGED <<str, lps, ret, old, file, enc>>

\* the driver is run on the inputs of at most MaxLen symbols
InitChunk == Init /\ Len(str) <= MaxLen

NextChunk ==
    \/ \E ub \in UBShift, g \in OOBStart, lcp_level \in 1..MaxLevel,
          chunk_size \in 3..Max(3, Len(str)) : InitLps4(ub, g, lcp_level, chunk_size)
    \/ pc = "chunked" /\ InitLps
    \/ \E ub \in UBShift : op[1] = "init_lps" /\ Deepen(ub, drv.level)

SpecChunk == InitChunk /\ [][NextChunk]_vars

-----------------------------------------------------------------------------
(* The two reverse-complement constructors.                                *)

\* init_lps2(&lps, str, len) of src/lps.c
InitLps2(oob) ==
    /\ pc = "new"
    /\ pc' = "rc"
    /\ lps' = init_lps2(oob, str)
    /\ op' = <<"init_lps2", 0>>
    /\ UNCHANGED <<str, ret, old, tmp, file, drv, enc>>

\* init_lps2(&tmp, str, len) of src/lcptools_ho.h
InitLps2Ho ==
    /\ pc = "rc"
    /\ pc' = "both"
    /\ tmp' = init_lps2_ho(str)
    /\ op' = <<"init_lps2", 1>>
    /\ UNCHANGED <<str, lps, ret, old, file, drv, enc>>

NextRC ==
    \/ \E oob \in RCCodes : InitLps2(oob)
    \/ InitLps2Ho

SpecRC == Init /\ [][NextRC]_vars

-----------------------------------------------------------------------------
(* Every constructor of a parse from symbols, and deepening.               *)

\* the chunked driver is run on the windows, the inputs that are long enough
\* for several chunks
NextCtor ==
    \/ InitLps
    \/ \E ub \in UBShift : Deepen1(ub)
    \/ \E oob \in RCCodes : InitLps2(oob)
    \/ InitLps2Ho
    \/ \E ub \in UBShift, g \in OOBStart, lcp_level \in 1..MaxLevel, chunk_size \in 3..MaxLen :
           Len(str) = MaxLen /\ InitLps4(ub, g, lcp_level, chunk_size)

SpecCtor == Init /\ [][NextCtor]_vars

-----------------------------------------------------------------------------
(* Inputs with a long run of one symbol.                                   *)

\* the longest run of equal symbols
MaxRun == 30

\* a symbol, m times symbol c, and one more symbol
RunInputs ==
    {<<x>> \o [i \in 1..m |-> c] \o <<y>> :
        x \in Sigma \ {"N"}, c \in Sigma \ {"N"}, m \in (MaxRun - 2)..MaxRun, y \in Sigma \ {"N"}}

InitRun ==
    /\ str \in RunInputs
    /\ pc = "new"
    /\ lps = NoLps
    /\ ret = -1
    /\ op = <<"none", 0>>
    /\ old = NoLps
    /\ tmp = NoLps
    /\ file = <<>>
    /\ drv = [level |-> 0, chunk |-> 0, index |-> 0, begin |-> 0, end |-> 0]
    /\ enc = LCP_INIT2(ZeroTables)

SpecRun == InitRun /\ [][Next]_vars

-----------------------------------------------------------------------------
(* Initialising the alphabet tables.                                       *)

\* most records of an encoding file
MaxRecords == 2

\* the records of the encoding files: a letter or another byte, with
\* encodings that are negative, of two binary digits, and of three
EncodingRecords == {"A", "N"} \X {-1, 2, 4} \X {-1, 2, 4}

EncodingFiles == UNION {[1..n -> EncodingRecords] : n \in 0..MaxRecords}

\* a process that has not initialised its tables yet
InitEnc ==
    /\ str = <<>>
    /\ pc = "start"
    /\ lps = NoLps
    /\ ret = -1
    /\ op = <<"none", 0>>
    /\ old = NoLps
    /\ tmp = NoLps
    /\ file = <<>>
    /\ drv = [level |-> 0, chunk |-> 0, index |-> 0, begin |-> 0, end |-> 0]
    /\ enc = ZeroTables

\* LCP_INIT() / LCP_INIT2(verbose)
LcpInit ==
    /\ pc \in {"start", "init"}
    /\ pc' = "init"
    /\ enc' = LCP_INIT2(enc)
    /\ op' = <<"LCP_INIT2", 0>>
    /\ UNCHANGED <<str, lps, ret, old, tmp, file, drv>>

\* ret = LCP_INIT_FILE(encoding_file, verbose): file keeps the records read
LcpInitFile(opened, records) ==
    /\ pc \in {"start", "init"}
    /\ \E r \in {LCP_INIT_FILE(enc, opened, records)} :
           /\ enc' = r.tables
           /\ ret' = r.ret
           /\ pc' = IF r.exits THEN "exit" ELSE IF opened THEN "init" ELSE pc
           /\ op' = <<"LCP_INIT_FILE", r.ret>>
    /\ file' = IF opened THEN records ELSE file
    /\ UNCHANGED <<str, lps, old, tmp, drv>>

NextEnc ==
    \/ LcpInit
    \/ \E opened \in BOOLEAN, records \in EncodingFiles : LcpInitFile(opened, records)

SpecEnc == InitEnc /\ [][NextEnc]_vars

-----------------------------------------------------------------------------
(* The chunked driver with arguments below the documented minimum.         *)

NextSmall ==
    \E ub \in UBShift, g \in OOBStart, lcp_level \in 0..1, chunk_size \in 0..3 :
        InitLps4(ub, g, lcp_level, chunk_size)

SpecSmall == Init /\ [][NextSmall]_vars

-----------------------------------------------------------------------------
(* Compression of cores: lcp_dct on a parse, core_compress on two of its   *)
(* cores, and on two cores built with init_core4 as in tests/test_core.cpp.  *)

MaxBits == 3

\* the cores of at most MaxBits bits
SmallCores ==
    {<<bit_size, bit_rep>> : bit_size \in 2..MaxBits, bit_rep \in 0..(Pow2(MaxBits) - 1)}
        \ {<<bit_size, bit_rep>> \in (2..MaxBits) \X (0..(Pow2(MaxBits) - 1)) :
               bit_rep >= Pow2(bit_size)}

\* init_core4(&core2, ..) and init_core4(&core1, ..): the left and the right
\* core, kept in lps as a pair
InitCore4(l, r) ==
    /\ lps = NoLps
    /\ str = <<>>
    /\ pc' = "parsed"
    /\ lps' = new_lps(2, << init_core4(l[1], NatBits(l[2]), NatBits(11), 0, 3),
                            init_core4(r[1], NatBits(r[2]), NatBits(10), 1, 4) >>)
    /\ old' = lps
    /\ op' = <<"init_core4", 0>>
    /\ UNCHANGED <<str, ret, tmp, file, drv, enc>>

\* ret = lcp_dct(&lps)
LcpDct ==
    /\ pc = "parsed"
    /\ pc' = "compressed"
    /\ \E r \in {lcp_dct(lps)} : lps' = [lps EXCEPT !.cores = r.cores] /\ ret' = r.ret
    /\ old' = lps
    /\ op' = <<"lcp_dct", 0>>
    /\ UNCHANGED <<str, tmp, file, drv, enc>>

\* core_compress(&lps.cores[i], &lps.cores[j]) (1-based)
CoreCompress(i, j) ==
    /\ pc = "parsed"
    /\ i \in 1..lps.size /\ j \in 1..lps.size /\ i # j
    /\ pc' = "compressed"
    /\ lps' = [lps EXCEPT !.cores[j] = core_compress(lps.cores[i], lps.cores[j])]
    /\ old' = lps
    /\ op' = <<"core_compress", 0>>
    /\ drv' = [drv EXCEPT !.begin = i, !.end = j]
    /\ UNCHANGED <<str, ret, tmp, file, enc>>

NextDct ==
    \/ InitLps
    \/ \E l \in SmallCores, r \in SmallCores : InitCore4(l, r)
    \/ \E ub \in UBShift : Deepen1(ub)
    \/ LcpDct
    \/ \E i \in 1..lps.size, j \in 1..lps.size : CoreCompress(i, j)

SpecDct == Init /\ [][NextDct]_vars

-----------------------------------------------------------------------------
(* The chunked driver chunk by chunk: tmp holds lps_ptr, lps the parse     *)
(* temp_lps of the chunk parsed last, old the cores accumulated before it,   *)
(* drv.index the start str_index of the next chunk, drv.begin and drv.end    *)
(* the start and the length str_len of the chunk parsed last.                *)

MaxChunk == 5

\* before the call: the input is an argument of init_lps4
InitDrive ==
    /\ str = <<>>
    /\ pc = "new"
    /\ lps = NoLps
    /\ ret = -1
    /\ op = <<"none", 0>>
    /\ old = NoLps
    /\ tmp = NoLps
    /\ file = <<>>
    /\ drv = [level |-> 0, chunk |-> 0, index |-> 0, begin |-> 0, end |-> 0]
    /\ enc = LCP_INIT2(ZeroTables)

\* init_lps4(&tmp, s, len, lcp_level, chunk_size) up to its while loop: the
\* first chunk
DriveFirst(ub, s, lcp_level, chunk_size) ==
    /\ pc = "new"
    /\ pc' = "driving"
    /\ str' = s
    /\ \E temp_lps \in {chunk_lps(ub, s, 0, Min(chunk_size, Len(s)), lcp_level)} :
           /\ lps' = temp_lps
           /\ tmp' = new_lps(1, first_state(temp_lps).cores)
           /\ drv' = [drv EXCEPT !.level = lcp_level, !.chunk = chunk_size,
                                 !.index = first_state(temp_lps).str_index,
                                 !.begin = 0, !.end = Min(chunk_size, Len(s))]
    /\ old' = tmp
    /\ op' = <<"first_chunk", 0>>
    /\ UNCHANGED <<ret, file, enc>>

\* one iteration of the while loop; g is what a read below the array yields
DriveStep(ub, g) ==
    /\ pc = "driving"
    /\ drv.index < Len(str)
    /\ \E str_len \in {Min(drv.chunk, Len(str) - drv.index)} :
       \E temp_lps \in {chunk_lps(ub, str, drv.index, str_len, drv.level)} :
       \E st \in {merge_chunk(g, str, drive_state(drv.index, tmp.cores), str_len, temp_lps)} :
           /\ lps' = temp_lps
           /\ tmp' = new_lps(1, st.cores)
           /\ drv' = [drv EXCEPT !.index = st.str_index, !.begin = drv.index,
                                 !.end = drv.index + str_len]
    /\ old' = tmp
    /\ op' = <<"next_chunk", g>>
    /\ UNCHANGED <<str, pc, ret, file, enc>>

\* the while loop ends and init_lps4 returns
DriveReturn ==
    /\ pc = "driving"
    /\ drv.index >= Len(str)
    /\ pc' = "chunked"
    /\ op' = <<"init_lps4", drv.level>>
    /\ UNCHANGED <<str, lps, ret, old, tmp, file, drv, enc>>

NextDrive ==
    \/ \E ub \in UBShift, s \in {t \in Inputs : Len(t) <= MaxLen},
          lcp_level \in 1..MaxLevel, chunk_size \in 3..MaxChunk :
           DriveFirst(ub, s, lcp_level, chunk_size)
    \/ \E ub \in UBShift, g \in OOBStart : DriveStep(ub, g)
    \/ DriveReturn

SpecDrive == InitDrive /\ [][NextDrive]_vars

-----------------------------------------------------------------------------
(* Deepening the parses of sequences over two symbols.                     *)

\* a sequence over A and C whose level-2 parse has three cores in a row with
\* the bit_reps 010001, 10010001 and 010001
PeriodicString == <<
    "A", "C", "C", "A", "C", "C", "A", "A", "C",
    "A", "C", "C", "A", "A", "C", "A", "A", "C">>

\* a sequence over A and C whose level-2 parse has a run of cores with more
\* than 64 bits behind its first core
WideString == <<
    "C", "A", "C", "A", "C", "C", "A", "C", "C", "A", "A", "C", "A", "A", "C", "C",
    "A", "C", "C", "A", "C", "C", "A", "C", "C", "A", "C", "C", "A", "A", "C", "A",
    "A", "C", "A", "A", "C", "C", "A", "C", "C", "A", "C", "C", "A", "C", "C", "A",
    "C", "C", "A", "A", "C", "A", "A", "C", "C", "A", "C", "A", "C", "C", "A", "C">>

\* the periodic sequence and its pieces of at least MaxLen symbols, and the
\* wide one
InitDeep ==
    /\ str \in {SubSeq(PeriodicString, i, j) :
                    i \in 1..Len(PeriodicString), j \in 1..Len(PeriodicString)}
                \cup {WideString}
    /\ Len(str) >= MaxLen
    /\ pc = "new"
    /\ lps = NoLps
    /\ ret = -1
    /\ op = <<"none", 0>>
    /\ old = NoLps
    /\ tmp = NoLps
    /\ file = <<>>
    /\ drv = [level |-> 0, chunk |-> 0, index |-> 0, begin |-> 0, end |-> 0]
    /\ enc = LCP_INIT2(ZeroTables)

SpecDeep == InitDeep /\ [][Next]_vars

-----------------------------------------------------------------------------
(* Properties.                                                             *)

\* two cores with the same span, bit_rep and label
same_core(c, d) ==
    c.start = d.start /\ c.end = d.end /\ c.bit_rep = d.bit_rep /\ c.label = d.label

\* the core a window was cut around, and the pattern parse1 finds at its start
window_core == lps.cores[drv.index]
window_pattern == pattern1(alphabet, str, window_core.start)

\* the window has been parsed and deepened to the level of lps
Compared == pc = "compared"

\* the margins of the window, left and right of the span of the core
LeftMargin == window_core.start - drv.begin
RightMargin == drv.end - window_core.end

\* the core is the pattern core of one of the given kinds
PatternCore(kinds) ==
    /\ lps.level = 1
    /\ window_pattern.kind \in kinds
    /\ window_pattern.end = window_core.end

\* C1: for every input, level L >= 1 and chunk size >= 3, the cores of the
\* chunked driver init_lps4 are those of init_lps followed by lps_deepen to L:
\* as many, and with the same bit_rep, label, start and end at every index
ChunkMergeEquivalence ==
    (op = <<"lps_deepen", drv.level>> /\ pc = "parsed" /\ drv.chunk >= 3)
    => /\ tmp.size = lps.size
       /\ \A i \in 1..lps.size : same_core(tmp.cores[i], lps.cores[i])

\* a run in which the driver, with chunks shorter than the input, loses or
\* changes cores of the single pass
ChunkMergeDiffers ==
    /\ op = <<"lps_deepen", drv.level>> /\ pc = "parsed"
    /\ drv.chunk >= 3 /\ drv.chunk < Len(str)
    /\ tmp.size # lps.size

NegativeBoundary ==
    (Compared /\ (<<LeftMargin, RightMargin>> \in {<<-1, 0>>, <<0, -1>>}))
    => tmp.size = 0

ShortenedSpanParsed ==
    /\ Compared /\ LeftMargin = -1 /\ RightMargin = 0
    /\ lps.level = 2
    /\ tmp.level = 2 /\ tmp.size = 0

\* the cores of the forward scan of the reversed input with the codes of the
\* reverse complement
rc_reference == scan(rc_alphabet, Reverse(str), 0)

\* the parse p has the cores of rc_reference, at the mirrored positions
rc_dual(p) ==
    /\ p.size = Len(rc_reference)
    /\ \A i \in 1..p.size :
           /\ p.cores[i].bit_rep = rc_reference[i].bit_rep
           /\ p.cores[i].bit_size = rc_reference[i].bit_size
           /\ p.cores[i].label = rc_reference[i].label
           /\ p.cores[i].start = Len(str) - rc_reference[i].end
           /\ p.cores[i].end = Len(str) - rc_reference[i].start

\* C5: on every input the reverse-complement parser yields the cores of the
\* forward parser run on the reversed input with the reverse-complement codes:
\* as many, with the same bit_rep, bit_size and label at every index, and with
\* the spans mirrored by pos -> len - pos
RCDuality == pc = "both" => rc_dual(lps) /\ rc_dual(tmp)

\* a run in which parse2 of src/lps.c builds a core with another label than
\* the forward parser on the reversed input
RCLabelDiffers ==
    /\ pc = "both"
    /\ lps.size = Len(rc_reference)
    /\ \E i \in 1..lps.size : lps.cores[i].label # rc_reference[i].label

\* C6: init_lps3 on the bytes written by write_lps yields the parse written:
\* the same level and size and, at every index, the same bit_size, bit_rep,
\* label, start and end
RoundTrip ==
    pc = "read"
    => /\ tmp.level = lps.level
       /\ tmp.size = lps.size
       /\ \A i \in 1..lps.size :
              /\ tmp.cores[i].bit_size = lps.cores[i].bit_size
              /\ tmp.cores[i].bit_rep = lps.cores[i].bit_rep
              /\ tmp.cores[i].label = lps.cores[i].label
              /\ tmp.cores[i].start = lps.cores[i].start
              /\ tmp.cores[i].end = lps.cores[i].end

\* a parse of several cores read back from a dump whose padding is not zero
ReadBack ==
    /\ pc = "read"
    /\ lps.size >= 2
    /\ file[13] = 255
    /\ tmp.cores[2] = lps.cores[2]

\* C7: the level-1 parse of TestString has 31 cores, the first with bit_rep
\* 0x8000000000000000 | 0b01100001, bit_size 6 and label 0b01100001, the last
\* with bit_rep 0x8000000000000000 | 0b10110111 and bit_size 8; at level 2 it
\* has 12 cores, the first with bit_size 6 and bit_rep 0b110001; at level 3
\* it has 4 cores, the first with bit_size 6 and bit_rep 0b110011
TestStringParse ==
    (str = TestString /\ pc = "parsed")
    => /\ lps.level = 1
          => /\ lps.size = 31
             /\ lps.cores[1].bit_rep = BitOr(TopBit, NatBits(97))
             /\ lps.cores[1].bit_size = 6
             /\ lps.cores[1].label = NatBits(97)
             /\ lps.cores[31].bit_rep = BitOr(TopBit, NatBits(183))
             /\ lps.cores[31].bit_size = 8
       /\ lps.level = 2
          => /\ lps.size = 12
             /\ lps.cores[1].bit_size = 6
             /\ lps.cores[1].bit_rep = NatBits(49)
       /\ lps.level = 3
          => /\ lps.size = 4
             /\ lps.cores[1].bit_size = 6
             /\ lps.cores[1].bit_rep = NatBits(51)

TestStringDeepened ==
    str = TestString /\ lps.level = 3 /\ lps.size = 4 /\ op = <<"lps_deepen", 3>>

\* C8: lps_deepen with a target level at or below the level of the parse
\* returns 0 and leaves the parse as it was
DeepenNoOp ==
    (op[1] = "lps_deepen" /\ op[2] <= old.level) => ret = 0 /\ lps = old

DeepenRefused ==
    /\ op = <<"lps_deepen", 2>>
    /\ old.level = 2 /\ old.size > 0
    /\ ret = 0

\* C9: lps_deepen returns 1 only if the parse is at the requested level on
\* return, and returns 0 whenever deepening stops below that level
DeepenReportsSuccess ==
    op[1] = "lps_deepen"
    => /\ ret = 1 => lps.level = op[2]
       /\ lps.level < op[2] => ret = 0

\* a call of lps_deepen that returns 1 with the parse below the target level
DeepenStopsEarly ==
    op[1] = "lps_deepen" /\ ret = 1 /\ lps.level < op[2]

\* C10: the level of a parse is the level its cores were produced at: 1 after
\* init_lps, one more after every lps_deepen1, and the target level for a
\* parse with cores that init_lps4 returns
LevelOfProduction ==
    /\ op[1] = "init_lps" => lps.level = 1
    /\ (op[1] = "lps_deepen" /\ lps.size > 0) => lps.level = Max(old.level, op[2])
    /\ (pc # "new" /\ tmp.size > 0) => tmp.level = drv.level

\* a parse with cores of level 2 that init_lps4 returns at level 1
ChunkedLevelStaysOne ==
    pc = "chunked" /\ drv.level = 2 /\ drv.chunk = Len(str) /\ tmp.size > 0 /\ tmp.level = 1

\* every core of p has start < end, and the starts never decrease along p
spans_ordered(p) ==
    /\ \A i \in 1..p.size : p.cores[i].start < p.cores[i].end
    /\ \A i \in 1..(p.size - 1) : p.cores[i].start <= p.cores[i + 1].start

overlap_bounded(p) ==
    \A i \in 1..(p.size - 1) : p.cores[i].end - p.cores[i + 1].start <= 2

BitSizeRange == \A i \in 1..lps.size : 2 <= lps.cores[i].bit_size /\ lps.cores[i].bit_size <= 63

\* a parse of level 1 with a core whose bit_size is above 63
BitSizeOverflows ==
    lps.level = 1 /\ \E i \in 1..lps.size : lps.cores[i].bit_size > 63

\* the bytes the last initialiser assigned a code to
Assigned ==
    IF op[1] = "LCP_INIT2" THEN Bytes \ {"N"}
    ELSE {file[i][1] : i \in 1..Len(file)}

\* C14: after an initialisation of the tables, the first one or a later one,
\* every byte the initialiser assigned no code to maps to -1 in both tables,
\* and every byte it assigned maps to a code in 0..3 in both
TablesInitialised ==
    (pc = "init" /\ op[2] = 0)
    => \A b \in Bytes :
           IF b \in Assigned
           THEN enc.alphabet[b] \in 0..3 /\ enc.rc_alphabet[b] \in 0..3
           ELSE enc.alphabet[b] = -1 /\ enc.rc_alphabet[b] = -1

\* the tables after LCP_INIT2 in a process that had not initialised them: a
\* byte without a code maps to -1 forward and to 0 in the reverse complement
RcEntryNotCleared ==
    /\ pc = "init" /\ op = <<"LCP_INIT2", 0>>
    /\ enc.alphabet["N"] = -1
    /\ enc.rc_alphabet["N"] = 0

\* C15: init_lps4 with a target level below 1 or a chunk size below 3 is
\* rejected: the call surfaces an error and does not run the parse; it
\* neither loops nor returns with the fields of the parse object left unset
BadInputRejected ==
    (op[1] = "init_lps4" /\ (drv.level < 1 \/ drv.chunk < 3))
    => /\ pc = "rejected"
       /\ pc # "looping"
       /\ ~(pc = "chunked" /\ tmp = NoLps)

\* a call with chunk size 0 whose loop never ends
DriverLoops ==
    pc = "looping" /\ op[1] = "init_lps4" /\ drv.level = 1 /\ drv.chunk = 0

\* C16: lcp_dct on a parse of at least two cores leaves the first core as it
\* was and replaces every other core by core_compress of the cores that its
\* left neighbour and itself were before the call, so its new start is the
\* start its left neighbour had before; on fewer than two cores it changes
\* nothing and returns -1
DctPassOrder ==
    op[1] = "lcp_dct" =>
        IF old.size < 2 THEN ret = -1 /\ lps = old
        ELSE /\ ret = 0
             /\ lps.level = old.level /\ lps.size = old.size
             /\ Len(lps.cores) = old.size
             /\ lps.cores[1] = old.cores[1]
             /\ \A i \in 2..old.size :
                    /\ lps.cores[i] = core_compress(old.cores[i - 1], old.cores[i])
                    /\ lps.cores[i].start = old.cores[i - 1].start

\* a pass over at least three cores in which compressing against the
\* compressed left neighbour would have given another core
DctOrderMatters ==
    /\ op[1] = "lcp_dct" /\ old.size >= 3 /\ ret = 0
    /\ \E i \in 3..old.size :
           core_compress(lps.cores[i - 1], old.cores[i]) # lps.cores[i]

\* The parser of the upper levels over an array buf that it only reads, with
\* an output sequence of its own. safe records that every read is of a slot
\* behind the slots that parse3 has written in the same array so far: slot w
\* (0-based) is written when out has w cores
ref_state(it2, out, safe) == [it2 |-> it2, out |-> out, safe |-> safe]

\* a core of the cores from .. from + distance - 1, written to slot Len(out)
ref_emit(ub, buf, st, from, distance) ==
    [st EXCEPT !.out = Append(st.out, init_core3(ub, buf, from, distance)),
               !.safe = st.safe /\ from > Len(st.out)]

\* the tests at it1 read the cores from it1 - 1 on (from it1 on at begin)
ref_tests(begin, st, it1) ==
    [st EXCEPT !.safe = st.safe /\ (Len(st.out) = 0 \/
                                    (IF begin = it1 THEN it1 ELSE it1 - 1) > Len(st.out) - 1)]

ref_fill(ub, buf, st, it1) ==
    IF st.it2 < it1 THEN ref_emit(ub, buf, st, st.it2 - 1, it1 - st.it2 + 2) ELSE st

ref_found(ub, buf, st, it1, it2) ==
    IF it2 < 0 THEN st
    ELSE [ref_emit(ub, buf, ref_fill(ub, buf, st, it1), it1, it2 - it1) EXCEPT !.it2 = it2]

ref_step(ub, buf, begin, end, st, it1) ==
    ref_found(ub, buf, ref_tests(begin, st, it1), it1, pattern3(buf, begin, end, it1))

RECURSIVE ref_scan(_, _, _, _, _, _, _)
ref_scan(ub, buf, begin, end, st, lo, hi) ==
    IF lo >= hi THEN st
    ELSE IF hi = lo + 1 THEN ref_step(ub, buf, begin, end, st, lo)
    ELSE LET mid == (lo + hi) \div 2
             left == ref_scan(ub, buf, begin, end, st, lo, mid)
         IN After(left, ref_scan(ub, buf, begin, end, left, mid, hi))

ref_parse3(ub, buf, begin, end) ==
    ref_scan(ub, buf, begin, end, ref_state(end, <<>>, TRUE), begin, end - 2)

\* C17: parse3 in lps_deepen1 reads only slots behind the ones it has
\* written, and the parse it leaves is the one that the same parser makes
\* from an untouched copy of the compressed cores with a separate output
InPlaceSafe ==
    (op[1] = "lps_deepen1" /\ old.size >= DCT_ITERATION_COUNT + 1)
    => \E ub \in UBShift :
           \E r \in {ref_parse3(ub, lcp_dct(old).cores, DCT_ITERATION_COUNT, old.size)} :
               /\ r.safe
               /\ lps.size = Len(r.out)
               /\ lps.cores = r.out
               /\ lps.level = old.level + 1

\* a deepening that writes slot 0 from the cores at slot 1 on and slot 1 from
\* the cores at slot 3 on: the slots read are just ahead of the slots written
WritesBehindReads ==
    /\ op[1] = "lps_deepen1" /\ old.level = 1 /\ old.size >= 5 /\ lps.size >= 2
    /\ lps.cores[1].start = old.cores[1].start
    /\ lps.cores[2].start = old.cores[3].start

\* the cores of a call of core_compress: the left core, the right core before
\* the call and the right core after it
compress_left == old.cores[drv.begin]
compress_right == old.cores[drv.end]
compress_result == lps.cores[drv.end]

\* the fields of the bit_rep of a level-1 core: the 2-bit code at bit k, and
\* the count held in the bits 6 to 62
code_at(b, k) == Bit(b, k) + 2 * Bit(b, k + 1)
middle_of(b) == BitsNat(Trunc(Shr(b, 6), 57))

\* the fields of the level-1 core c are those of its symbols in str
fields_of_symbols(c) ==
    (\A i \in {c.start, c.end - 2, c.end - 1} : alphabet[At(str, i)] >= 0)
    => /\ code_at(c.bit_rep, 0) = alphabet[At(str, c.end - 1)]
       /\ code_at(c.bit_rep, 2) = alphabet[At(str, c.end - 2)]
       /\ code_at(c.bit_rep, 4) = alphabet[At(str, c.start)]
       /\ middle_of(c.bit_rep) = c.end - c.start - 2

\* C18: core_compress with a left core that has the top bit set compares the
\* codes of the last symbols, then of the second-last symbols, then the middle
\* counts, then the codes of the first symbols. The new bit_rep is in 0..3,
\* with bit_size 2, iff the last codes differ; in 4..7 iff they are equal and
\* the second-last codes differ; 4 * (the smaller middle count + 1) + t with
\* t in 0..3 iff those are equal and the middle counts or the first codes
\* differ; twice the old bit_size iff all four are equal. Its top bit is clear
Level1Compress ==
    (op[1] = "core_compress" /\ old.level = 1 /\ HasTop(compress_left.bit_rep))
    => LET l == compress_left.bit_rep
           r == compress_right.bit_rep
           v == BitsNat(compress_result.bit_rep)
           last == code_at(l, 0) = code_at(r, 0)
           second == code_at(l, 2) = code_at(r, 2)
           middle == middle_of(l) = middle_of(r)
           first == code_at(l, 4) = code_at(r, 4)
       IN  /\ fields_of_symbols(compress_left) /\ fields_of_symbols(compress_right)
           /\ (v \in 0..3 /\ compress_result.bit_size = 2) <=> ~last
           /\ v \in 0..3 <=> ~last
           /\ v \in 4..7 <=> (last /\ ~second)
           /\ (\E t \in 0..3 : v = 4 * (Min(middle_of(l), middle_of(r)) + 1) + t)
                  <=> (last /\ second /\ (~middle \/ ~first))
           /\ v = 2 * compress_right.bit_size <=> (last /\ second /\ middle /\ first)
           /\ ~HasTop(compress_result.bit_rep)

\* a call on two level-1 cores that agree in the last two codes and differ in
\* the middle count
MiddleCountsDiffer ==
    /\ op[1] = "core_compress" /\ old.level = 1 /\ HasTop(compress_left.bit_rep)
    /\ code_at(compress_left.bit_rep, 0) = code_at(compress_right.bit_rep, 0)
    /\ code_at(compress_left.bit_rep, 2) = code_at(compress_right.bit_rep, 2)
    /\ middle_of(compress_left.bit_rep) # middle_of(compress_right.bit_rep)

\* the lowest bit at which two words differ
lowest_difference(a, b) ==
    CHOOSE k \in 0..63 : Bit(a, k) # Bit(b, k) /\ \A j \in 0..(k - 1) : Bit(a, j) = Bit(b, j)

\* the number of significant bits of n
significant_bits(n) == CHOOSE k \in 0..31 : n < Pow2(k) /\ (k = 0 \/ n >= Pow2(k - 1))

\* C19: core_compress with a left core that has the top bit clear takes d,
\* the lowest bit at which the two bit_rep differ, or the bit_size of the
\* right core if they are equal, at most the smaller of the two bit_size; the
\* new bit_rep is 2 * d + bit d of the old one and the new bit_size the number
\* of its significant bits, at least 2. Left 0b111 and right 0b101 of 3 bits
\* give 0b10 of 2 bits. label and end of the right core stay, its start
\* becomes the start of the left core, and no other core changes
UpperCompress ==
    (op[1] = "core_compress" /\ ~HasTop(compress_left.bit_rep))
    => LET l == compress_left
           r == compress_right
           d == Min(IF l.bit_rep = r.bit_rep THEN r.bit_size
                    ELSE lowest_difference(l.bit_rep, r.bit_rep),
                    Min(l.bit_size, r.bit_size))
       IN  /\ BitsNat(compress_result.bit_rep) = 2 * d + Bit(r.bit_rep, d)
           /\ compress_result.bit_size = Max(2, significant_bits(2 * d + Bit(r.bit_rep, d)))
           /\ (l.bit_rep = NatBits(7) /\ r.bit_rep = NatBits(5) /\ l.bit_size = 3 /\ r.bit_size = 3)
                  => (compress_result.bit_rep = NatBits(2) /\ compress_result.bit_size = 2)
           /\ compress_result.label = r.label
           /\ compress_result.end = r.end
           /\ compress_result.start = l.start
           /\ \A i \in 1..old.size : i # drv.end => lps.cores[i] = old.cores[i]
           /\ lps.size = old.size /\ Len(lps.cores) = old.size

\* the call of test_core_compress: left 0b111, right 0b101, both of 3 bits
CompressOfTest ==
    /\ op[1] = "core_compress"
    /\ compress_left.bit_rep = NatBits(7) /\ compress_left.bit_size = 3
    /\ compress_right.bit_rep = NatBits(5) /\ compress_right.bit_size = 3
    /\ compress_right.label = NatBits(10)

\* The patterns of level 1 at position i (0-based) of str, from the codes of
\* its symbols. run_from is the length of the longest run of equal codes that
\* starts at i + 1
code(i) == alphabet[At(str, i)]
run_from(i) ==
    CHOOSE m \in 1..Len(str) :
        /\ i + m < Len(str)
        /\ \A k \in 1..m : code(i + k) = code(i + 1)
        /\ (i + m + 1 < Len(str) => code(i + m + 1) # code(i + 1))
is_rint(i) == code(i + 1) = code(i + 2) /\ i + run_from(i) + 1 < Len(str)
is_lmin(i) == code(i) > code(i + 1) /\ code(i + 1) < code(i + 2)
is_lmax(i) ==
    /\ i > 0 /\ i + 3 < Len(str)
    /\ code(i - 1) <= code(i) /\ code(i) < code(i + 1)
    /\ code(i + 1) > code(i + 2) /\ code(i + 2) >= code(i + 3)
pattern_count(i) ==
    (IF is_rint(i) THEN 1 ELSE 0) + (IF is_lmin(i) THEN 1 ELSE 0) + (IF is_lmax(i) THEN 1 ELSE 0)
is_pattern(i) == code(i) # code(i + 1) /\ pattern_count(i) = 1
pattern_end(i) == IF is_rint(i) THEN i + 2 + run_from(i) ELSE i + 3
pattern_kind(i) == IF is_rint(i) THEN "RINT" ELSE IF is_lmin(i) THEN "LMIN" ELSE "LMAX"

\* the positions the claim is about
scanned == {i \in 0..(Len(str) - 3) : code(i) # -1}

\* C20: at every position i of the input with a valid symbol and i + 2 < len,
\* parse1 emits a pattern core that starts at i iff the codes at i and i + 1
\* differ and exactly one of RINT, LMIN and LMAX holds at i, and the core
\* then spans [i, i + 2 + m) for RINT and [i, i + 3) otherwise. The scan goes
\* on at i + 1 after an emission, and no two cores start at the same position:
\* every other core is one that fills the gap between two pattern cores
PatternRecognition ==
    op[1] = "init_lps"
    => /\ \A i \in scanned :
              /\ is_pattern(i) <=> pattern1(alphabet, str, i).kind \in {"RINT", "LMIN", "LMAX"}
              /\ is_pattern(i) => /\ pattern1(alphabet, str, i).kind = pattern_kind(i)
                                  /\ pattern1(alphabet, str, i).end = pattern_end(i)
                                  /\ \E k \in 1..lps.size :
                                         /\ lps.cores[k].start = i
                                         /\ lps.cores[k].end = pattern_end(i)
       /\ \A k \in 1..lps.size :
              \/ /\ lps.cores[k].start \in scanned
                 /\ is_pattern(lps.cores[k].start)
                 /\ lps.cores[k].end = pattern_end(lps.cores[k].start)
              \/ /\ 1 < k /\ k < lps.size
                 /\ ~(lps.cores[k].start \in scanned /\ is_pattern(lps.cores[k].start))
                 /\ lps.cores[k].start = lps.cores[k - 1].end - 1
                 /\ lps.cores[k].end = lps.cores[k + 1].start + 1
       /\ \A k \in 1..lps.size, n \in 1..lps.size :
              k # n => lps.cores[k].start # lps.cores[n].start

\* a parse with pattern cores at two positions next to each other, a local
\* maximum and a run of at least two symbols
PatternsSideBySide ==
    /\ op[1] = "init_lps"
    /\ \E i \in scanned : i + 1 \in scanned /\ is_pattern(i) /\ is_pattern(i + 1)
    /\ \E i \in scanned : is_pattern(i) /\ is_lmax(i)
    /\ \E i \in scanned : is_pattern(i) /\ is_rint(i) /\ run_from(i) >= 3

\* The positions of buffer s at which parse1 finds a pattern, and the end of
\* the pattern core at i
patterns_of(s) ==
    {i \in 0..(Len(s) - 3) : pattern1(alphabet, s, i).kind \in {"RINT", "LMIN", "LMAX"}}
end_of(s, i) == pattern1(alphabet, s, i).end

\* the pattern core emitted last before position i, if there is one
earlier(s, i) == {p \in patterns_of(s) : p < i}
last_before(s, i) == CHOOSE p \in earlier(s, i) : \A q \in earlier(s, i) : q <= p

\* the rule of the gap: a pattern core was emitted before, it ends at j < i,
\* and no symbol from j - 1 up to i - 1 is out of the alphabet
gap_filled(s, i) ==
    /\ earlier(s, i) # {}
    /\ end_of(s, last_before(s, i)) < i
    /\ \A k \in (end_of(s, last_before(s, i)) - 1)..(i - 1) : alphabet[At(s, k)] # -1

span_of(kind, start, end) == [kind |-> kind, start |-> start, end |-> end]

\* the spans that the rule gives for the positions from i on, in order
RECURSIVE spans_from(_, _, _)
spans_from(s, offset, i) ==
    IF i > Len(s) - 3 THEN <<>>
    ELSE IF i \notin patterns_of(s) THEN spans_from(s, offset, i + 1)
    ELSE (IF gap_filled(s, i)
          THEN <<span_of("SSEQ", end_of(s, last_before(s, i)) - 1 + offset, i + 1 + offset)>>
          ELSE <<>>)
         \o <<span_of("PATTERN", i + offset, end_of(s, i) + offset)>>
         \o spans_from(s, offset, i + 1)

\* the cores of p are those of the rule for buffer s parsed at offset; the
\* first one is a pattern core, and the cores that fill a gap lie on valid
\* symbols only
back_filled(p, s, offset) ==
    \E e \in {spans_from(s, offset, 0)} :
        /\ p.size = Len(e)
        /\ \A k \in 1..Len(e) : /\ p.cores[k].start = e[k].start
                                 /\ p.cores[k].end = e[k].end
        /\ Len(e) > 0 => e[1].kind = "PATTERN"
        /\ \A k \in 1..Len(e) :
               e[k].kind = "SSEQ"
               => \A x \in (e[k].start - offset)..(e[k].end - offset - 1) :
                      alphabet[At(s, x)] # -1

\* C21: parse1 emits a core that fills the gap before the pattern core at i
\* iff a pattern core was emitted before, the last one ends at j < i and no
\* symbol out of the alphabet lies at j - 1 or behind; it spans [j - 1, i + 1)
\* shifted by the offset. The first core of a level-1 parse never fills a
\* gap, and no such core covers a symbol out of the alphabet
BackFillRule ==
    /\ op[1] = "init_lps" => back_filled(lps, str, 0)
    /\ op[1] = "init_lps_offset"
           => back_filled(tmp, SubSeq(str, drv.begin + 1, drv.end), drv.begin)

\* a window parsed at an offset that holds a symbol out of the alphabet, with
\* a gap that is filled and two pattern cores that leave no gap
GapFilledAtOffset ==
    /\ op[1] = "init_lps_offset" /\ drv.begin > 0
    /\ \E x \in drv.begin..(drv.end - 1) : alphabet[At(str, x)] = -1
    /\ \E k \in 2..tmp.size :
           /\ tmp.cores[k].start = tmp.cores[k - 1].end - 1
           /\ k < tmp.size /\ tmp.cores[k].end = tmp.cores[k + 1].start + 1
    /\ \E k \in 2..tmp.size : tmp.cores[k].start < tmp.cores[k - 1].end - 1

\* C22: every call of lps_deepen1 raises the level by exactly 1; on a parse
\* of fewer than 2 cores it sets the size to 0 and returns 0, on any other it
\* returns 1 and leaves fewer cores than there were. After lps_deepen to a
\* target above the level of the parse, the level is at most the target, and
\* below it only if the parse is empty
DeepeningProtocol ==
    /\ op[1] = "lps_deepen1"
           => /\ lps.level = old.level + 1
              /\ old.size < 2 => (lps.size = 0 /\ ret = 0)
              /\ old.size >= 2 => (ret = 1 /\ lps.size < old.size)
    /\ (op[1] = "lps_deepen" /\ op[2] > old.level)
           => /\ lps.level <= op[2]
              /\ lps.level < op[2] => lps.size = 0

\* a call of lps_deepen on a parse of at least two cores that runs out of
\* cores one level below the target
DeepeningRunsDry ==
    /\ op[1] = "lps_deepen" /\ old.level = 1 /\ old.size >= 2
    /\ lps.level = op[2] - 1 /\ lps.size = 0

chunk_invalid == {i \in drv.begin..(drv.end - 1) : alphabet[At(str, i)] = -1}

\* the last iteration went on to "find next start point": the core before the
\* last one did not move the start of the next chunk
fell_back ==
    /\ pc = "driving" /\ op[1] = "next_chunk"
    /\ ~(1 < lps.size /\ drv.begin < start_at(op[2], tmp.cores, tmp.size - 2))

\* C24: after an iteration that added no cores and fell back, the next chunk
\* starts one past the last out-of-alphabet symbol of the chunk, or at the end
\* of the chunk when it has none, and never beyond the end of the chunk
FallbackRule ==
    (fell_back /\ tmp.size = old.size)
        => /\ chunk_invalid # {}
                  => \/ drv.index = MaxOf(chunk_invalid) + 1
                     \/ MaxOf(chunk_invalid) + 1 >= Len(str) /\ drv.index >= Len(str)
           /\ chunk_invalid = {} => drv.index = drv.end
           /\ drv.index <= drv.end

\* a chunk without cores whose last out-of-alphabet symbol is followed by an
\* in-alphabet one: the next chunk starts a chunk length further on, and the
\* positions in between are in no chunk
FallbackSkips ==
    /\ fell_back /\ tmp.size = old.size
    /\ chunk_invalid # {}
    /\ MaxOf(chunk_invalid) + 1 < Len(str)
    /\ drv.index = MaxOf(chunk_invalid) + 1 + (drv.end - drv.begin)
    /\ drv.index > drv.end
    /\ drv.index < Len(str)


\* the indices at which the last iteration read lps_ptr->cores: core_index - 2
\* and, when the core there does not start the chunk's first core,
\* core_index - 1 in the overlap search, then core_index - 2 after the append
merge_reads ==
    IF 1 < lps.size
    THEN {old.size - 2, tmp.size - 2}
         \cup (IF start_at(op[2], old.cores, old.size - 2) = lps.cores[1].start
               THEN {} ELSE {old.size - 1})
    ELSE {}

\* C25: every read the merge of a chunk makes of the cores kept so far is at
\* an index from 0 up to, not including, the number of cores kept at that
\* point
MergeInBounds ==
    (pc = "driving" /\ op[1] = "next_chunk")
        => /\ \A i \in merge_reads : 0 <= i
           /\ 1 < lps.size
                  => /\ old.size - 2 < old.size
                     /\ old.size - 1 < old.size
                     /\ tmp.size - 2 < tmp.size

\* a chunk of two or more cores arrives when one core is kept: the first read
\* of the overlap search is below the array
MergeReadsBelow ==
    /\ pc = "driving" /\ op[1] = "next_chunk"
    /\ 1 < lps.size /\ old.size = 1
    /\ -1 \in merge_reads

\* the positions [x, y) of the input as given at which the backward scan of
\* parse2 of src/lps.c finds a pattern, whatever the byte after the input is
patterns2 ==
    {xy \in (0..Len(str)) \X (0..Len(str)) :
        /\ 3 <= xy[2]
        /\ \A oob \in RCCodes :
               \E r \in {step2(oob, str, 0, scan2_state(-1, <<>>), xy[2] - 1)} :
                   Len(r.cores) = 1 /\ r.it2 = xy[1] - 1}

\* the positions [x, y) of the input as given that hold the patterns the scan
\* of src/lcptools_ho.h finds in the reversed input
patterns2_ho ==
    {xy \in (0..Len(str)) \X (0..Len(str)) :
        /\ xy[2] <= Len(str) /\ 3 <= xy[2]
        /\ \E found \in {pattern1(rc_alphabet, Reverse(str), Len(str) - xy[2])} :
               /\ found.kind \notin {"INVALID", "NONE"}
               /\ found.end = Len(str) - xy[1]}

\* the spans of the cores of the parse p
spans(p) == {<<p.cores[i].start, p.cores[i].end>> : i \in 1..p.size}

\* pos -> len - pos on a span
mirrored(xy) == <<Len(str) - xy[2], Len(str) - xy[1]>>

\* C26: the core the reverse-complement parser builds from the pattern at the
\* positions [x, y) of the input as given has start = x and end = y (the
\* offset of init_lps2 is 0)
OriginalCoordinates ==
    pc = "both"
        => /\ \A xy \in patterns2 : xy \in spans(lps)
           /\ \A xy \in patterns2_ho : xy \in spans(tmp)

\* a pattern of the input whose core has, in both constructors, the span the
\* pattern has in the reversed input and not the one it has in the input
MirroredSpans ==
    /\ pc = "both"
    /\ \E xy \in patterns2 \cap patterns2_ho :
           /\ mirrored(xy) # xy
           /\ xy \notin spans(lps) /\ xy \notin spans(tmp)
           /\ mirrored(xy) \in spans(lps) /\ mirrored(xy) \in spans(tmp)

\* the first cores of the triples of p in which neighbours differ in bit_rep
distinct_triples(p) ==
    {i \in 1..(p.size - 2) : /\ p.cores[i].bit_rep # p.cores[i + 1].bit_rep
                             /\ p.cores[i + 1].bit_rep # p.cores[i + 2].bit_rep}

\* the triples of p whose second and third core core_compress makes equal
collisions(p) ==
    {i \in distinct_triples(p) :
        core_compress(p.cores[i], p.cores[i + 1]).bit_rep
            = core_compress(p.cores[i + 1], p.cores[i + 2]).bit_rep}

\* C27: in the parse that lps_deepen1 compresses, three cores in a row whose
\* neighbours differ in bit_rep get different bit_reps from core_compress: the
\* one the second gets from the first differs from the one the third gets
\* from the second
LocalDistinctness == op[1] = "lps_deepen1" => collisions(old) = {}

\* a level-2 parse with three cores in a row, neighbours different, whose
\* second and third core core_compress makes equal, and lcp_dct has done so
DctCollision ==
    /\ op[1] = "lps_deepen1" /\ old.level = 2
    /\ \E i \in collisions(old) :
           lcp_dct(old).cores[i + 1].bit_rep = lcp_dct(old).cores[i + 2].bit_rep

\* the cores of the parse p of str that cover an out-of-alphabet symbol
covering_invalid(p) ==
    {k \in 1..p.size :
        \E i \in p.cores[k].start..(p.cores[k].end - 1) : alphabet[At(str, i)] = -1}

\* C28: no core of the level-1 parse of init_lps covers a symbol without a
\* code: every symbol in the span of a core has a code in 0..3
NoInvalidCovered == op[1] = "init_lps" => covering_invalid(lps) = {}

\* a core of three symbols whose middle symbol has no code: -1 is below both
\* neighbours, so the test for a local minimum holds
MinimumAtInvalid ==
    /\ op[1] = "init_lps"
    /\ \E k \in covering_invalid(lps) :
           /\ lps.cores[k].end = lps.cores[k].start + 3
           /\ alphabet[At(str, lps.cores[k].start)] # -1
           /\ alphabet[At(str, lps.cores[k].start + 1)] = -1
           /\ alphabet[At(str, lps.cores[k].start + 2)] # -1

\* the capacity init_lps and init_lps_offset allocate for len symbols:
\* len / CONSTANT_FACTOR = len / 1.5, as a count of cores
capacity_for(len) == (2 * len) \div 3

\* C29: parse1 writes the cores of an input of len symbols to the slots 0, 1,
\* .. size - 1 of the array, and size is at most the capacity of the array,
\* floor(len / 1.5), for init_lps and for init_lps_offset on a window
OutputFits ==
    /\ op[1] = "init_lps"
           => lps.size = Len(lps.cores) /\ lps.size <= capacity_for(Len(str))
    /\ op[1] = "init_lps_offset"
           => tmp.size = Len(tmp.cores) /\ tmp.size <= capacity_for(drv.end - drv.begin)

\* a parse of three or more cores of an input with a symbol without a code,
\* with a core for every two symbols but the first two
DenseParseFits ==
    /\ op[1] = "init_lps"
    /\ \E i \in 1..Len(str) : alphabet[str[i]] = -1
    /\ lps.size > 2
    /\ 2 * lps.size >= Len(str) - 2
    /\ lps.size <= capacity_for(Len(str))

\* the runs <<begin, distance>> (begin 0-based) of the array buf, as lcp_dct
\* leaves it, from which init_core3 builds the core c: c has the start of the
\* first core of the run, the end of its last core, and the label of the run
runs_of(buf, c) ==
    {run \in (DCT_ITERATION_COUNT..(Len(buf) - 1)) \X (2..Len(buf)) :
        /\ run[1] + run[2] <= Len(buf)
        /\ buf[run[1] + 1].start = c.start
        /\ buf[run[1] + run[2]].end = c.end
        /\ init_core3("zero", buf, run[1], run[2]).label = c.label}

\* the largest index of the second loop of init_core3 on the run: the one by
\* which the first core of the run is shifted
widest_shift(buf, run) == sum_bit_size(buf, run[1] + 1, run[1] + run[2] - 1)

\* C30: every core lps_deepen1 builds comes from a run of cores whose first
\* core is shifted by less than 64 bits; its bit_rep is the low 63 bits of the
\* bit_reps of the run laid side by side, last core lowest, and its bit_size
\* the sum of their bit_sizes, at most 63
ShiftBelow64 ==
    (op[1] = "lps_deepen1" /\ ret = 1)
        => \A k \in 1..lps.size :
               /\ runs_of(lcp_dct(old).cores, lps.cores[k]) # {}
               /\ \A run \in runs_of(lcp_dct(old).cores, lps.cores[k]) :
                      /\ widest_shift(lcp_dct(old).cores, run) < 64
                      /\ lps.cores[k].bit_rep
                             = init_core3("zero", lcp_dct(old).cores, run[1], run[2]).bit_rep
                      /\ lps.cores[k].bit_size
                             = Min(sum_bit_size(lcp_dct(old).cores, run[1],
                                                run[1] + run[2] - 1), 63)

\* a core built from a run whose first core is shifted by 64 bits or more, in
\* a build where the shift uses the count modulo 64: the bits of that core
\* land on the low bits of the result
ShiftWraps ==
    /\ op[1] = "lps_deepen1" /\ ret = 1
    /\ \E k \in 1..lps.size :
           \E run \in runs_of(lcp_dct(old).cores, lps.cores[k]) :
               /\ widest_shift(lcp_dct(old).cores, run) >= 64
               /\ lps.cores[k].bit_rep
                      = init_core3("wrap", lcp_dct(old).cores, run[1], run[2]).bit_rep
               /\ lps.cores[k].bit_rep
                      # init_core3("zero", lcp_dct(old).cores, run[1], run[2]).bit_rep


=============================================================================
